---- MODULE Spec2Model ----
(***************************************************************************)
(* Model of the word-timestamp synchronization learning subsystem:         *)
(*   - ServicoFila          (task queue, src/services/geminiService.ts)    *)
(*   - SyncAiService        (synchronization estimator, src/unnamed/part_015)*)
(*   - SupabaseService      (metric store client, src/services/supabaseService.ts,*)
(*                           src/services/learningAlgorithmService.ts)     *)
(*   - LearningAlgorithmService (learning cycle)                           *)
(*   - VectorDatabaseService (ingestion buffer)                            *)
(*   - TranscriptionDisplay (the caller of the estimator's queries,        *)
(*                           src/components/TranscriptionDisplay.tsx)      *)
(* Each component has its own next-state relation and specification; the   *)
(* variables of the other components stay unchanged.                       *)
(*                                                                         *)
(* Numbers: times and offsets are integer milliseconds. Fractions          *)
(* (confidence, learning rate, stability) are fixed-point integers scaled  *)
(* by Escala; JavaScript's floating-point division is modelled by integer  *)
(* division rounded toward minus infinity.                                 *)
(***************************************************************************)
EXTENDS Integers, Sequences, FiniteSets, TLC

VARIABLES
    \* ---- ServicoFila
    fila,              \* this.fila: sequence of task ids waiting
    processando,       \* this.processando: set of task ids being processed
    concluidas,        \* this.concluidas (as a set of task ids)
    falharam,          \* this.falharam (as a set of task ids)
    processandoAtivo,  \* this.processandoAtivo
    tarefas,           \* every TarefaFila created so far, indexed by id, with its promise
    fase,              \* per task: where processarTarefa / the retry timer stands
    abandonadas,       \* per task: executions of tarefa.funcao() abandoned by the timeout and still running
    loops,             \* number of iniciarProcessamento invocations suspended in aguardar(50)
    relogioFila,       \* Date.now() as seen by adicionarTarefa
    falhasFila,        \* number of attempts that failed or timed out so far (bounded by MaxFalhas)
    \* ---- SyncAiService
    userInteractions,  \* syncMetrics.userInteractions: sequence of [expectedTime, actualTime, timestamp]
    averageDelay,      \* syncPattern.averageDelay (ms)
    confidence,        \* syncPattern.confidence (scaled by Escala)
    sampleCount,       \* syncPattern.sampleCount
    audioLatency,      \* syncMetrics.audioLatency (ms)
    LEARNING_RATE,     \* written through (this as any) by the monitor (scaled by Escala)
    CONFIDENCE_THRESHOLD, \* idem (scaled by Escala)
    lastCalibration,   \* this.lastCalibration, 0 while undefined (read as `lastCalibration || 0`)
    monitores,         \* intervals created by iniciarMonitoramento and never cleared
    agora,             \* Date.now() as seen by the estimator
    registradas,       \* history: samples registered since construction or the last resetarPadroes
    chamadasSync,      \* history: calls made so far, [registros, ticks, resets], and the most
                       \* samples a monitor tick has had flagged as outliers, [marcados]
    \* ---- SupabaseService
    linhas,            \* learning_data: number of rows per word (lower case)
    metricsCache,      \* this.metricsCache, per word: [presente, data, timestamp]
    operacoes,         \* calls of the store client, in the order they started, with where they stand
    agoraBanco,        \* Date.now() as seen by the store client
    falhasBanco,       \* remote requests that failed so far (bounded by MaxFalhasBanco)
    \* ---- LearningAlgorithmService
    intervalId,        \* this.intervalId: 0 for null, else the number of the live interval
    isLearning,        \* this.isLearning
    isInitialized,     \* this.isInitialized
    intervaloAtualizacao, \* configuracao.intervaloAtualizacao (minutes)
    inicializando,     \* calls of inicializar suspended in carregarPadroesExistentes
    ciclos,            \* executions of executarCicloAprendizado, with the await each stands at
    temporizadores,    \* setInterval calls made so far
    parado,            \* history: parar() was called and neither inicializar() nor
                       \* atualizarConfiguracao() has been called since
    inicializado,      \* history: a call of inicializar() has returned and parar() has not
                       \* been called since
    \* ---- VectorDatabaseService
    registrosBuffer,   \* this.registrosBuffer
    ultimoEnvio,       \* this.ultimoEnvio
    aprendizadoAtivo,  \* this.aprendizadoAtivo
    agoraEnvio,        \* Date.now() as seen by the ingestion service
    enviados,          \* history: records handed to supabaseService.registrarSincronizacao
    lotesEmEnvio,      \* batches waiting in Promise.allSettled
    gravacoes,         \* history: per record of `enviados`, its batch and how its write ended
    chamadasEnvio,     \* history: calls made so far, [registros, trocas]
    \* ---- TranscriptionDisplay
    transcription,     \* the transcript handed to the last call of corrigirTimestamps
    correctedTranscription, \* what that call returned
    compensacoes,      \* calls of calcularCompensacaoTempo, in the order they started
    \* ---- VectorDatabaseService.predizerCompensacao
    compensacaoCache,  \* this.compensacaoCache, per word: [presente, resultado, timestamp]
    \* ---- SupabaseService.salvarDadosAprendizadoComEmbeddings
    learningData,      \* learning_data: per word (lower case) the rows, each [actual_time]
    salvamentos,       \* calls of salvarDadosAprendizadoComEmbeddings, in the order they started
    copiaEmUso,        \* which of the two copies of the method the build has, "-" before the first call
    \* ---- LearningAlgorithmService: the patterns
    padroes,           \* this.padroes: per key, [existe] and the fields of the PadraoAprendizado
    ultimaPredicao,    \* the last call of predizerCompensacao: [palavra, doPadrao, valor]
    analises,          \* history: calls of analisarRegistro so far, per word as it came
    analisesDeTranscricao, \* calls of analisarTranscricao, with the word each is at
    ultimaAnalise,     \* history: the last word analysed through analisarTranscricao
    otimizacao,        \* history: the passes of otimizarPadroes so far and what the last one removed
    \* ---- SupabaseService.obterMetricasPalavra
    consultas,         \* calls of obterMetricasPalavra, in the order they started, with their attempts
    versoes            \* learning_data, per word (lower case): the writes executed, 0 without a row

varsFila == <<fila, processando, concluidas, falharam, processandoAtivo, tarefas,
              fase, abandonadas, loops, relogioFila, falhasFila>>

varsSync == <<userInteractions, averageDelay, confidence, sampleCount, audioLatency,
              LEARNING_RATE, CONFIDENCE_THRESHOLD, lastCalibration, monitores, agora,
              registradas, chamadasSync>>

varsBanco == <<linhas, metricsCache, operacoes, agoraBanco, falhasBanco>>

varsAprendizado == <<intervalId, isLearning, isInitialized, intervaloAtualizacao,
                     inicializando, ciclos, temporizadores, parado, inicializado>>

varsIngestao == <<registrosBuffer, ultimoEnvio, aprendizadoAtivo, agoraEnvio, enviados,
                  lotesEmEnvio, gravacoes, chamadasEnvio>>

varsExibicao == <<transcription, correctedTranscription, compensacoes, compensacaoCache>>

varsSalvar == <<learningData, salvamentos, copiaEmUso>>

varsPadroes == <<padroes, ultimaPredicao, analises, analisesDeTranscricao, ultimaAnalise,
                 otimizacao>>

varsConsulta == <<consultas, versoes>>

vars == <<varsFila, varsSync, varsBanco, varsAprendizado, varsIngestao, varsExibicao,
         varsSalvar, varsPadroes, varsConsulta>>

\* What the operations of one component leave alone: the other components.
foraDaFila == <<varsSync, varsBanco, varsAprendizado, varsIngestao, varsExibicao,
    varsSalvar, varsPadroes, varsConsulta>>
foraDoSync == <<varsFila, varsBanco, varsAprendizado, varsIngestao, varsExibicao,
    varsSalvar, varsPadroes, varsConsulta>>
foraDoBanco == <<varsFila, varsSync, varsAprendizado, varsIngestao, varsExibicao,
    varsSalvar, varsPadroes, varsConsulta>>
foraDoAprendizado == <<varsFila, varsSync, varsBanco, varsIngestao, varsExibicao,
    varsSalvar, varsPadroes, varsConsulta>>
foraDaIngestao == <<varsFila, varsSync, varsBanco, varsAprendizado, varsExibicao,
    varsSalvar, varsPadroes, varsConsulta>>
foraDaExibicao == <<varsFila, varsSync, varsBanco, varsAprendizado, varsIngestao,
    varsSalvar, varsPadroes, varsConsulta>>
foraDoSalvar == <<varsFila, varsSync, varsBanco, varsAprendizado, varsIngestao,
    varsExibicao, varsPadroes, varsConsulta>>
foraDaConsulta == <<varsFila, varsSync, varsAprendizado, varsIngestao, varsExibicao,
    varsSalvar, varsPadroes>>
foraDosPadroes == <<varsFila, varsSync, varsBanco, varsAprendizado, varsIngestao,
    varsExibicao, varsSalvar, varsConsulta>>

\* ---------------------------------------------------------------- helpers
Min(a, b) == IF a < b THEN a ELSE b
Max(a, b) == IF a > b THEN a ELSE b
Abs(a) == IF a < 0 THEN -a ELSE a
Range(s) == {s[i] : i \in DOMAIN s}

RECURSIVE Soma(_)
Soma(s) == IF s = <<>> THEN 0 ELSE Head(s) + Soma(Tail(s))

\* ======================================================================
\* ServicoFila
\* ======================================================================
MaxRelogioFila == 1    \* distinct values of Date.now() seen by adicionarTarefa
MaxLoops == 1          \* iniciarProcessamento loops alive at the same time
MaxFalhas == 1         \* attempts that fail or time out in one run
MaxAbandonadas == 1    \* operations abandoned by a timeout and still running at the same time

maxConcorrencia == 3
maxTentativasPadrao == 3

\* Tasks ever handed to the queue: one more than the concurrency bound, so that
\* a task has to wait while maxConcorrencia others are processed.
MaxTarefas == maxConcorrencia + 1

Prioridades == {"alta", "media", "baixa"}

\* const prioridades = { alta: 3, media: 2, baixa: 1 }
prioridades(p) == CASE p = "alta" -> 3 [] p = "media" -> 2 [] OTHER -> 1

\* Variant of the comparator: the priority comparison is dropped, the queue is ordered by timestamp alone.
compararTarefasSemPrioridade(a, b) == a.timestamp - b.timestamp

\* The comparator of ordenarFila: negative when a goes before b.
compararTarefas(a, b) ==
    LET diffPrioridade == prioridades(b.prioridade) - prioridades(a.prioridade)
    IN IF diffPrioridade # 0 THEN diffPrioridade ELSE a.timestamp - b.timestamp

RECURSIVE InserirOrdenado(_, _, _)
\* x is inserted before the first element that compares greater than x
\* (Array.prototype.sort is stable).
InserirOrdenado(s, x, t) ==
    IF s = <<>> THEN <<x>>
    ELSE IF compararTarefas(t[Head(s)], t[x]) > 0 THEN <<x>> \o s
    ELSE <<Head(s)>> \o InserirOrdenado(Tail(s), x, t)

RECURSIVE ordenarFila(_, _)
\* this.fila.sort(...): f is a sequence of ids, t the task table
ordenarFila(f, t) ==
    IF f = <<>> THEN <<>>
    ELSE InserirOrdenado(ordenarFila(SubSeq(f, 1, Len(f) - 1), t), f[Len(f)], t)

\* Number of tasks the inner while loop of iniciarProcessamento starts.
Vagas(f) == Max(0, Min(Len(f), maxConcorrencia - Cardinality(processando)))

\* The inner while loop of iniciarProcessamento on queue f and task table t:
\* shift tasks while there is room; processarTarefa does processando.set and
\* tentativas++, waits for the inter-request delay and calls tarefa.funcao(),
\* raced against criarTimeoutPromise (phase "executando").
PassagemDoLoop(f, t) ==
    LET k == Vagas(f)
        ini == SubSeq(f, 1, k)
    IN /\ fila' = SubSeq(f, k + 1, Len(f))
       /\ processando' = processando \cup Range(ini)
       /\ tarefas' = [i \in DOMAIN t |->
                        IF i \in Range(ini) THEN [t[i] EXCEPT !.tentativas = @ + 1] ELSE t[i]]
       /\ fase' = [i \in DOMAIN t |->
                        IF i \in Range(ini) THEN "executando"
                        ELSE IF i \in DOMAIN fase THEN fase[i] ELSE "fila"]

\* A task whose promise is settled is read no more by the queue: only the
\* state of its promise is kept.
Encerrada(promessa) ==
    [prioridade |-> "baixa", tentativas |-> 0, maxTentativas |-> 0, timestamp |-> 0,
     promessa |-> promessa]

InitFila ==
    /\ fila = <<>>
    /\ processando = {}
    /\ concluidas = {}
    /\ falharam = {}
    /\ processandoAtivo = FALSE
    /\ tarefas = <<>>
    /\ fase = <<>>
    /\ abandonadas = <<>>
    /\ loops = 0
    /\ relogioFila = 0
    /\ falhasFila = 0

\* adicionarTarefa(funcao, prioridade, maxTentativas): push, ordenarFila, and
\* iniciarProcessamento (its first pass, up to the await) if no loop is active.
\* avanco: whether Date.now() moved since the previous call.
AdicionarTarefa(prioridade, maxTentativas, avanco) ==
    /\ Len(tarefas) < MaxTarefas
    /\ relogioFila + avanco <= MaxRelogioFila
    /\ relogioFila' = relogioFila + avanco
    /\ LET id == Len(tarefas) + 1
           t == Append(tarefas, [prioridade |-> prioridade, tentativas |-> 0,
                                 maxTentativas |-> maxTentativas,
                                 timestamp |-> relogioFila + avanco,
                                 promessa |-> "pendente"])
           f == ordenarFila(Append(fila, id), t)
       IN /\ abandonadas' = Append(abandonadas, 0)
          /\ processandoAtivo \/ loops < MaxLoops
          /\ IF ~processandoAtivo
             THEN /\ processandoAtivo' = TRUE
                  /\ loops' = loops + 1
                  /\ PassagemDoLoop(f, t)
             ELSE /\ fila' = f
                  /\ tarefas' = t
                  /\ fase' = Append(fase, "fila")
                  /\ UNCHANGED <<processando, processandoAtivo, loops>>
    /\ UNCHANGED <<concluidas, falharam, falhasFila>>
    /\ UNCHANGED foraDaFila

\* pararProcessamento()
PararProcessamento ==
    /\ processandoAtivo
    /\ processandoAtivo' = FALSE
    /\ UNCHANGED <<fila, processando, concluidas, falharam, tarefas, fase,
                   abandonadas, loops, relogioFila, falhasFila>>
    /\ UNCHANGED foraDaFila

\* reiniciarProcessamento(): a new iniciarProcessamento loop when none is flagged active.
ReiniciarProcessamento ==
    /\ ~processandoAtivo
    /\ fila # <<>>
    /\ loops < MaxLoops
    /\ processandoAtivo' = TRUE
    /\ loops' = loops + 1
    /\ PassagemDoLoop(fila, tarefas)
    /\ UNCHANGED <<concluidas, falharam, abandonadas, relogioFila, falhasFila>>
    /\ UNCHANGED foraDaFila

\* An iniciarProcessamento loop returns from aguardar(50): it re-tests the
\* outer while condition, then either runs the inner loop again or ends.
LoopAcorda ==
    /\ loops > 0
    /\ IF processandoAtivo /\ (fila # <<>> \/ processando # {})
       THEN /\ PassagemDoLoop(fila, tarefas)
            /\ UNCHANGED <<processandoAtivo, loops>>
       ELSE /\ processandoAtivo' = FALSE
            /\ loops' = loops - 1
            /\ UNCHANGED <<fila, processando, tarefas, fase>>
    /\ UNCHANGED <<concluidas, falharam, abandonadas, relogioFila, falhasFila>>
    /\ UNCHANGED foraDaFila

\* The try branch of processarTarefa: the operation resolved before the timeout.
FuncaoResolve(id) ==
    /\ id \in DOMAIN fase
    /\ fase[id] = "executando"
    /\ processando' = processando \ {id}
    /\ concluidas' = concluidas \cup {id}
    /\ tarefas' = [tarefas EXCEPT ![id] = Encerrada("resolvida")]
    /\ fase' = [fase EXCEPT ![id] = "concluida"]
    /\ UNCHANGED <<fila, falharam, processandoAtivo, abandonadas, loops, relogioFila,
                   falhasFila>>
    /\ UNCHANGED foraDaFila

\* The catch branch of processarTarefa: retry timer, or definitive failure.
Capturar(id) ==
    /\ processando' = processando \ {id}
    /\ IF tarefas[id].tentativas < tarefas[id].maxTentativas
       THEN /\ fase' = [fase EXCEPT ![id] = "retentativa"]
            /\ UNCHANGED <<falharam, tarefas>>
       ELSE /\ falharam' = falharam \cup {id}
            /\ tarefas' = [tarefas EXCEPT ![id] = Encerrada("rejeitada")]
            /\ fase' = [fase EXCEPT ![id] = "falhou"]
    /\ falhasFila < MaxFalhas
    /\ falhasFila' = falhasFila + 1
    /\ UNCHANGED <<fila, concluidas, processandoAtivo, loops, relogioFila>>
    /\ UNCHANGED foraDaFila

\* Operations abandoned by a timeout that are still running.
EmAbandono == Soma(abandonadas)

\* The operation rejected.
FuncaoRejeita(id) ==
    /\ id \in DOMAIN fase
    /\ fase[id] = "executando"
    /\ Capturar(id)
    /\ UNCHANGED abandonadas

\* criarTimeoutPromise rejected first: the race is lost, the operation itself
\* is not cancelled and keeps running.
TimeoutExcedido(id) ==
    /\ id \in DOMAIN fase
    /\ fase[id] = "executando"
    /\ Capturar(id)
    /\ EmAbandono < MaxAbandonadas
    /\ abandonadas' = [abandonadas EXCEPT ![id] = @ + 1]

\* An operation abandoned by a timeout settles; nobody observes the result.
FuncaoAbandonadaTermina(id) ==
    /\ id \in DOMAIN abandonadas
    /\ abandonadas[id] > 0
    /\ abandonadas' = [abandonadas EXCEPT ![id] = @ - 1]
    /\ UNCHANGED <<fila, processando, concluidas, falharam, processandoAtivo, tarefas,
                   fase, loops, relogioFila, falhasFila>>
    /\ UNCHANGED foraDaFila

\* The setTimeout callback of the catch branch: this.fila.unshift(tarefa).
TimerRetentativa(id) ==
    /\ id \in DOMAIN fase
    /\ fase[id] = "retentativa"
    /\ fila' = <<id>> \o fila
    /\ fase' = [fase EXCEPT ![id] = "fila"]
    /\ UNCHANGED <<processando, concluidas, falharam, processandoAtivo, tarefas,
                   abandonadas, loops, relogioFila, falhasFila>>
    /\ UNCHANGED foraDaFila

IdsTarefa == 1..(MaxTarefas + 1)

PassoInterno ==
    \/ LoopAcorda
    \/ \E id \in IdsTarefa : FuncaoResolve(id)
    \/ \E id \in IdsTarefa : FuncaoRejeita(id)
    \/ \E id \in IdsTarefa : TimeoutExcedido(id)
    \/ \E id \in IdsTarefa : FuncaoAbandonadaTermina(id)
    \/ \E id \in IdsTarefa : TimerRetentativa(id)

\* The queue driven by adicionarTarefa alone.
NextFilaSemParada ==
    \/ \E p \in Prioridades, a \in {0, 1} : AdicionarTarefa(p, maxTentativasPadrao, a)
    \/ PassoInterno

\* The queue with pararProcessamento / reiniciarProcessamento as well.
NextFila ==
    \/ \E p \in Prioridades, a \in {0, 1} : AdicionarTarefa(p, maxTentativasPadrao, a)
    \/ PararProcessamento
    \/ ReiniciarProcessamento
    \/ PassoInterno

\* ======================================================================
\* SyncAiService
\* ======================================================================
MaxRegistros == 5      \* calls of registrarInteracaoUsuario in one run of the estimator
MaxTicks == 1          \* firings of the monitoring interval in one run
MaxResets == 1         \* calls of resetarPadroes in one run
MaxTempo == 1          \* advances of the clock by PassoTempo in one run
MaxMonitores == 2      \* calls of iniciarMonitoramento in one run
MaxRegistrosMonitor == 3  \* registrations in a run with many monitor ticks
MaxTicksMonitor == 12  \* firings of the monitoring interval in such a run
MaxRegistrosOutlier == 10  \* registrations in a run with stray offsets
MaxRegistrosConstante == 20  \* registrations in a run with one constant offset
MaxExcedente == 2      \* registrations beyond MAX_SAMPLES in a run that fills the buffer
MaxLivres == 6         \* registrations with a free offset in a run that fills the buffer

\* Fixed-point scale of the fractions (confidence, rates, stability, weights).
Escala == 10^3

MAX_SAMPLES == 50
CONFIDENCE_THRESHOLD_INICIAL == 700    \* 0.7
LEARNING_RATE_INICIAL == 100           \* 0.1

\* The clock moves on a grid of twenty seconds, on which Math.exp is tabulated.
PassoTempo == 20 * 1000
\* Date.now() at construction: any value above the calibration interval does.
TempoInicial == 2 * PassoTempo
\* Math.exp(-20000 / 30000) = 0.5134..., scaled by Escala
DecaimentoPorPasso == 513

\* Arguments of registrarInteracaoUsuario: expected time, and the real times
\* (no offset, a small offset, a large offset).
TemposEsperados == {1000}
TemposReais == {1000, 3000}
\* Offsets of a run that fills the buffer.
AtrasosBuffer == {0, 40}

Limitar(lo, hi, x) == Max(lo, Min(hi, x))

\* interacoes.map(i => i.actualTime - i.expectedTime)
Atrasos(interacoes) ==
    [i \in DOMAIN interacoes |-> interacoes[i].actualTime - interacoes[i].expectedTime]

\* atrasos.filter((_, index) => !outliers[index])
RECURSIVE Filtrar(_, _)
Filtrar(s, marcas) ==
    IF s = <<>> THEN <<>>
    ELSE IF marcas[1] THEN Filtrar(Tail(s), Tail(marcas))
    ELSE <<s[1]>> \o Filtrar(Tail(s), Tail(marcas))

\* [...atrasos].sort((a, b) => a - b)
RECURSIVE InserirNumero(_, _)
InserirNumero(s, x) ==
    IF s = <<>> THEN <<x>>
    ELSE IF x < Head(s) THEN <<x>> \o s
    ELSE <<Head(s)>> \o InserirNumero(Tail(s), x)

RECURSIVE OrdenarNumeros(_)
OrdenarNumeros(s) ==
    IF s = <<>> THEN <<>> ELSE InserirNumero(OrdenarNumeros(Tail(s)), Head(s))

\* interacoes.slice(-k)
Ultimas(s, k) == SubSeq(s, Max(1, Len(s) - k + 1), Len(s))

\* Math.exp(-idade / 30000) for an age on the grid of PassoTempo, scaled by Escala
RECURSIVE PesoTemporal(_)
PesoTemporal(idade) ==
    IF idade <= 0 THEN Escala
    ELSE (PesoTemporal(idade - PassoTempo) * DecaimentoPorPasso) \div Escala

calcularPesosTemporais(interacoes, t) ==
    [i \in DOMAIN interacoes |-> PesoTemporal(t - interacoes[i].timestamp)]

\* The slope of the linear regression of atrasos over the indices 0..n-1,
\* in hundredths of a millisecond per index.
detectarTendencia(atrasos) ==
    IF Len(atrasos) < 3 THEN 0
    ELSE LET n == Len(atrasos)
             somaX == Soma([i \in 1..n |-> i - 1])
             somaY == Soma(atrasos)
             somaXY == Soma([i \in 1..n |-> (i - 1) * atrasos[i]])
             somaX2 == Soma([i \in 1..n |-> (i - 1) * (i - 1)])
         IN ((n * somaXY - somaX * somaY) * 100) \div (n * somaX2 - somaX * somaX)

\* Outliers by the distance from the median alone: whatever differs from it.
detectarOutliersPelaMediana(atrasos) ==
    IF Len(atrasos) < 4 THEN [i \in DOMAIN atrasos |-> FALSE]
    ELSE LET sorted == OrdenarNumeros(atrasos)
             mediana == sorted[Len(sorted) \div 2 + 1]
         IN [i \in DOMAIN atrasos |-> atrasos[i] # mediana]

\* IQR outliers: one boolean per element.
detectarOutliers(atrasos) ==
    IF Len(atrasos) < 4 THEN [i \in DOMAIN atrasos |-> FALSE]
    ELSE LET sorted == OrdenarNumeros(atrasos)
             q1Index == (Len(sorted) * 25) \div 100
             q3Index == (Len(sorted) * 75) \div 100
             q1 == sorted[q1Index + 1]
             q3 == sorted[q3Index + 1]
             iqr == q3 - q1
         IN [i \in DOMAIN atrasos |->
                \/ 2 * atrasos[i] < 2 * q1 - 3 * iqr
                \/ 2 * atrasos[i] > 2 * q3 + 3 * iqr]

\* Math.max(0, 1 - mediaVariacao / 500), scaled by Escala
calcularEstabilidade(atrasos) ==
    IF Len(atrasos) < 2 THEN 0
    ELSE LET diferencas == [i \in 1..(Len(atrasos) - 1) |-> Abs(atrasos[i + 1] - atrasos[i])]
         IN Max(0, Escala - (Soma(diferencas) * Escala) \div (500 * Len(diferencas)))

\* estabilidade * (1 - min(1, |tendencia| / 100)), scaled by Escala
calcularConsistencia(atrasos, tendencia) ==
    IF Len(atrasos) < 3 THEN 0
    ELSE LET variabilidadeTendencia == Abs(tendencia)
             estabilidadeTemporal == calcularEstabilidade(atrasos)
         IN Max(0, (estabilidadeTemporal
                      * (Escala - Min(Escala, (variabilidadeTendencia * Escala) \div (100 * 100))))
                   \div Escala)

\* The variance (ms^2) around the mean.
calcularVariancia(valores) ==
    LET media == Soma(valores) \div Len(valores)
    IN Soma([i \in DOMAIN valores |-> (valores[i] - media) * (valores[i] - media)])
          \div Len(valores)

\* Variant of the interpolation: the step is not scaled back by Escala.
lerpSemEscala(a, b, t) == a + (b - a) * t

\* a + (b - a) * t, t scaled by Escala
lerp(a, b, t) == a + ((b - a) * t) \div Escala

\* Variant of the confidence formula without Math.max(0, Math.min(1, ...)).
calcularConfiancaSemLimite(variancia, estabilidade, consistencia) ==
    ((Escala - variancia) * 4 + estabilidade * 3 + consistencia * 3) \div 10

\* const confianca = Math.max(0, Math.min(1, (1 - variancia / 1000) * 0.4
\*                    + estabilidade * 0.3 + consistencia * 0.3)), scaled by Escala:
\* variancia / 1000 scaled by Escala = 1000 is variancia itself.
calcularConfianca(variancia, estabilidade, consistencia) ==
    Limitar(0, Escala,
            ((Escala - variancia) * 4 + estabilidade * 3 + consistencia * 3) \div 10)

\* calibrarSistema(): the new audioLatency, from the latency and the confidence
\* left by ajustarLatenciaAdaptativa and analisarPadroes.
calibrarSistema(interacoes, conf, latencia) ==
    LET atrasos == Atrasos(interacoes)
        atrasosFiltrados == Filtrar(atrasos, detectarOutliers(atrasos))
    IN IF Len(atrasosFiltrados) < 3 THEN latencia
       ELSE LET novaLatenciaBase == Soma(atrasosFiltrados) \div Len(atrasosFiltrados)
                fatorCalibracao == Min(Escala \div 2, conf)
            IN lerp(latencia, novaLatenciaBase, fatorCalibracao)

\* executarAutoCalibração(): calibrates when more than 30 s passed since the
\* last calibration and there are at least 5 samples.
executarAutoCalibracao(interacoes, conf, latencia) ==
    IF agora - lastCalibration > 30000 /\ Len(interacoes) >= 5
    THEN /\ audioLatency' = calibrarSistema(interacoes, conf, latencia)
         /\ lastCalibration' = agora
    ELSE /\ audioLatency' = latencia
         /\ UNCHANGED lastCalibration

\* ajustarLatenciaAdaptativa(): adjusts on the last 10 samples, clamps to
\* [-500, 1000], then runs the self-calibration.
ajustarLatenciaAdaptativa(interacoes, conf) ==
    IF Len(interacoes) < 2 THEN UNCHANGED <<audioLatency, lastCalibration>>
    ELSE LET ultimasInteracoes == Ultimas(interacoes, 10)
             atrasos == Atrasos(ultimasInteracoes)
             atrasoMedio == Soma(atrasos) \div Len(atrasos)
             tendenciaAtraso == detectarTendencia(atrasos)
             estabilidade == calcularEstabilidade(atrasos)
             fatorAjuste == Min((3 * Escala) \div 10, (conf * estabilidade) \div Escala)
             ajustePrincipal == IF Abs(atrasoMedio) > 30
                                THEN (atrasoMedio * fatorAjuste) \div Escala ELSE 0
             ajustePreditivo == IF Abs(tendenciaAtraso) > 5 * 100
                                THEN (tendenciaAtraso * fatorAjuste) \div (10 * Escala) ELSE 0
             latencia == Limitar(-500, 1000, audioLatency + ajustePrincipal + ajustePreditivo)
         IN executarAutoCalibracao(interacoes, conf, latencia)

\* analisarPadroes() on the buffer left by the caller.
analisarPadroes(interacoes) ==
    IF Len(interacoes) < 3
    THEN UNCHANGED <<averageDelay, confidence, sampleCount, audioLatency, lastCalibration>>
    ELSE LET atrasos == Atrasos(interacoes)
             pesosTemporais == calcularPesosTemporais(interacoes, agora)
             atrasoMedioPonderado ==
                 Soma([i \in DOMAIN atrasos |-> atrasos[i] * pesosTemporais[i]])
                    \div Soma(pesosTemporais)
             tendencia == detectarTendencia(atrasos)
             outliers == detectarOutliers(atrasos)
             atrasosFiltrados == Filtrar(atrasos, outliers)
             variancia == calcularVariancia(atrasosFiltrados)
             estabilidade == calcularEstabilidade(atrasos)
             consistencia == calcularConsistencia(atrasos, tendencia)
             confianca == calcularConfianca(variancia, estabilidade, consistencia)
             taxaAprendizado == (LEARNING_RATE * (Escala \div 2 + confianca \div 2)) \div Escala
             novaConfianca == lerp(confidence, confianca, LEARNING_RATE)
         IN /\ averageDelay' = lerp(averageDelay, atrasoMedioPonderado, taxaAprendizado)
            /\ confidence' = novaConfianca
            /\ sampleCount' = Len(interacoes)
            /\ ajustarLatenciaAdaptativa(interacoes, novaConfianca)

\* Variant of the eviction: nothing is dropped, the buffer keeps every sample.
manterTodas(interacoes) == interacoes

\* Variant of the eviction: the sample just pushed is dropped instead of the oldest one.
manterUltimasDescartandoNova(interacoes) ==
    IF Len(interacoes) > MAX_SAMPLES THEN SubSeq(interacoes, 1, Len(interacoes) - 1)
    ELSE interacoes

\* if (userInteractions.length > MAX_SAMPLES) userInteractions.shift()
manterUltimas(interacoes) ==
    IF Len(interacoes) > MAX_SAMPLES THEN Tail(interacoes) ELSE interacoes

InitSync ==
    /\ userInteractions = <<>>
    /\ averageDelay = 0
    /\ confidence = 0
    /\ sampleCount = 0
    /\ audioLatency = 100
    /\ LEARNING_RATE = LEARNING_RATE_INICIAL
    /\ CONFIDENCE_THRESHOLD = CONFIDENCE_THRESHOLD_INICIAL
    /\ lastCalibration = 0
    /\ monitores = 0
    /\ agora = TempoInicial
    /\ registradas = <<>>
    /\ chamadasSync = [registros |-> 0, ticks |-> 0, resets |-> 0, marcados |-> 0]

\* registrarInteracaoUsuario as it would be without the call of analisarPadroes
RegistrarInteracaoUsuarioSemAnalise(tempoEsperado, tempoReal) ==
    LET interacao == [expectedTime |-> tempoEsperado, actualTime |-> tempoReal,
                      timestamp |-> agora]
    IN /\ userInteractions' = manterUltimas(Append(userInteractions, interacao))
       /\ registradas' = Append(registradas, interacao)
       /\ chamadasSync' = [chamadasSync EXCEPT !.registros = @ + 1]
       /\ UNCHANGED <<averageDelay, confidence, sampleCount, audioLatency, lastCalibration,
                      LEARNING_RATE, CONFIDENCE_THRESHOLD, monitores, agora>>
       /\ UNCHANGED foraDoSync

\* registrarInteracaoUsuario(tempoEsperado, tempoReal): push, eviction,
\* analisarPadroes -> ajustarLatenciaAdaptativa -> executarAutoCalibração.
RegistrarInteracaoUsuario(tempoEsperado, tempoReal) ==
    LET interacao == [expectedTime |-> tempoEsperado, actualTime |-> tempoReal,
                      timestamp |-> agora]
        interacoes == manterUltimas(Append(userInteractions, interacao))
    IN /\ userInteractions' = interacoes
       /\ registradas' = Append(registradas, interacao)
       /\ chamadasSync' = [chamadasSync EXCEPT !.registros = @ + 1]
       /\ analisarPadroes(interacoes)
       /\ UNCHANGED <<LEARNING_RATE, CONFIDENCE_THRESHOLD, monitores, agora>>
       /\ UNCHANGED foraDoSync

\* iniciarMonitoramento(): one more setInterval, none is ever cleared.
IniciarMonitoramento ==
    /\ monitores < MaxMonitores
    /\ monitores' = monitores + 1
    /\ UNCHANGED <<userInteractions, averageDelay, confidence, sampleCount, audioLatency,
                   LEARNING_RATE, CONFIDENCE_THRESHOLD, lastCalibration, agora,
                   registradas, chamadasSync>>
    /\ UNCHANGED foraDoSync

\* interacoes.filter(i => agora - i.timestamp < 10000)
RECURSIVE Recentes(_, _)
Recentes(interacoes, t) ==
    IF interacoes = <<>> THEN <<>>
    ELSE IF t - Head(interacoes).timestamp < 10000
         THEN <<Head(interacoes)>> \o Recentes(Tail(interacoes), t)
         ELSE Recentes(Tail(interacoes), t)

\* Variant of the adjustment of LEARNING_RATE: the factors without Math.max / Math.min.
novaTaxaAprendizadoSemLimites(atrasos, taxa) ==
    LET variabilidade == calcularVariancia(atrasos)
    IN IF variabilidade > 200 THEN (taxa * 9) \div 10
       ELSE IF variabilidade < 50 THEN (taxa * 11) \div 10
       ELSE taxa

\* ajustarParametrosDinamicos: the new LEARNING_RATE
novaTaxaAprendizado(atrasos, taxa) ==
    LET variabilidade == calcularVariancia(atrasos)
    IN IF variabilidade > 200 THEN Max(Escala \div 20, (taxa * 9) \div 10)
       ELSE IF variabilidade < 50 THEN Min((3 * Escala) \div 10, (taxa * 11) \div 10)
       ELSE taxa

\* ajustarParametrosDinamicos: the new CONFIDENCE_THRESHOLD
novoLimiarConfianca(atrasos, limiar) ==
    LET atrasoMedio == Soma(atrasos) \div Len(atrasos)
        variabilidade == calcularVariancia(atrasos)
    IN IF Abs(atrasoMedio) < 30 /\ variabilidade < 100
       THEN Max((3 * Escala) \div 10, limiar - Escala \div 20)
       ELSE Min((7 * Escala) \div 10, limiar + Escala \div 20)

\* outliers.filter(Boolean).length
Marcados(outliers) == Cardinality({i \in DOMAIN outliers : outliers[i]})

\* detectarAnomalias: percentualOutliers > 0.5
muitosOutliers(atrasos) ==
    LET outliers == detectarOutliers(atrasos)
    IN 2 * Marcados(outliers) > Len(outliers)

\* resetarSistemaParcial: the stable samples kept, at most the last 5
interacoesEstaveis(interacoes) ==
    LET marcas == detectarOutliers(Atrasos(interacoes))
        posicoes == Filtrar([i \in DOMAIN interacoes |-> i], marcas)
    IN Ultimas([k \in DOMAIN posicoes |-> interacoes[posicoes[k]]], 5)

\* aplicarCorrecaoEmergencia as it would be without its limits
aplicarCorrecaoEmergenciaSemLimite(latencia, novoAtraso) ==
    latencia + (novoAtraso * 3) \div 10

\* aplicarCorrecaoEmergencia(novoAtraso): the new audioLatency
aplicarCorrecaoEmergencia(latencia, novoAtraso) ==
    Limitar(-300, 800, latencia + (novoAtraso * 3) \div 10)

\* One firing of the monitoring interval: executarMonitoramentoRealTime().
ExecutarMonitoramentoRealTime ==
    /\ monitores > 0
    /\ chamadasSync' =
          [chamadasSync EXCEPT
              !.ticks = @ + 1,
              !.marcados =
                  IF Len(Recentes(userInteractions, agora)) >= 2
                  THEN Max(@, Marcados(detectarOutliers(Atrasos(Recentes(userInteractions, agora)))))
                  ELSE @]
    /\ IF userInteractions = <<>>
       THEN UNCHANGED <<userInteractions, confidence, audioLatency, LEARNING_RATE,
                        CONFIDENCE_THRESHOLD>>
       ELSE LET interacoesRecentes == Recentes(userInteractions, agora)
                atrasos == Atrasos(interacoesRecentes)
                analisa == Len(interacoesRecentes) >= 2
                anomalia == analisa /\ muitosOutliers(atrasos)
                mudancaBrusca ==
                    /\ analisa
                    /\ Len(atrasos) >= 3
                    /\ Abs(atrasos[Len(atrasos)] - atrasos[Len(atrasos) - 1]) > 300
                restantes == IF anomalia THEN interacoesEstaveis(userInteractions)
                             ELSE userInteractions
            IN /\ LEARNING_RATE' =
                    IF anomalia THEN (15 * Escala) \div 100
                    ELSE IF analisa THEN novaTaxaAprendizado(atrasos, LEARNING_RATE)
                    ELSE LEARNING_RATE
               /\ CONFIDENCE_THRESHOLD' =
                    IF analisa THEN novoLimiarConfianca(atrasos, CONFIDENCE_THRESHOLD)
                    ELSE CONFIDENCE_THRESHOLD
               /\ confidence' = IF anomalia THEN (confidence * 7) \div 10 ELSE confidence
               /\ audioLatency' =
                    IF mudancaBrusca
                    THEN aplicarCorrecaoEmergencia(audioLatency, atrasos[Len(atrasos)])
                    ELSE audioLatency
               /\ userInteractions' =
                    IF Len(restantes) > 100 THEN Ultimas(restantes, 100) ELSE restantes
    /\ UNCHANGED <<averageDelay, sampleCount, lastCalibration, monitores, agora, registradas>>
    /\ UNCHANGED foraDoSync

\* resetarPadroes()
ResetarPadroes ==
    /\ averageDelay' = 0
    /\ confidence' = 0
    /\ sampleCount' = 0
    /\ userInteractions' = <<>>
    /\ audioLatency' = 100
    /\ registradas' = <<>>
    /\ chamadasSync' = [chamadasSync EXCEPT !.resets = @ + 1]
    /\ UNCHANGED <<LEARNING_RATE, CONFIDENCE_THRESHOLD, lastCalibration, monitores, agora>>
    /\ UNCHANGED foraDoSync

\* Date.now() moves on by PassoTempo.
PassaTempo ==
    /\ agora' = agora + PassoTempo
    /\ UNCHANGED <<userInteractions, averageDelay, confidence, sampleCount, audioLatency,
                   LEARNING_RATE, CONFIDENCE_THRESHOLD, lastCalibration, monitores,
                   registradas, chamadasSync>>
    /\ UNCHANGED foraDoSync

\* The estimator under registrations, the monitor started once, resets and
\* the clock.
NextSync ==
    \/ \E te \in TemposEsperados, tr \in TemposReais :
          /\ chamadasSync.registros < MaxRegistros
          /\ RegistrarInteracaoUsuario(te, tr)
    \/ monitores = 0 /\ IniciarMonitoramento
    \/ chamadasSync.ticks < MaxTicks /\ ExecutarMonitoramentoRealTime
    \/ /\ chamadasSync.resets < MaxResets
       /\ userInteractions # <<>>     \* on an empty estimator the reset changes nothing
       /\ ResetarPadroes
    \/ agora < TempoInicial + MaxTempo * PassoTempo /\ PassaTempo

\* The estimator under a few registrations, the monitor started any number of
\* times, enough monitor ticks to drive LEARNING_RATE and CONFIDENCE_THRESHOLD
\* from their initial values to either end of their ranges, and resets.
NextSyncMonitor ==
    \/ \E te \in TemposEsperados, tr \in TemposReais :
          /\ chamadasSync.registros < MaxRegistrosMonitor
          /\ RegistrarInteracaoUsuario(te, tr)
    \/ IniciarMonitoramento
    \/ chamadasSync.ticks < MaxTicksMonitor /\ ExecutarMonitoramentoRealTime
    \/ /\ chamadasSync.resets < MaxResets
       /\ userInteractions # <<>>
       /\ ResetarPadroes

\* The expected time of the k-th word clicked: the playback moves on from word to word.
TempoEsperadoDaPalavra(k) == 1000 * k

\* The estimator under registrations alone, enough of them to fill the buffer
\* and overflow it: the first MaxLivres registrations have any of the offsets
\* of AtrasosBuffer, the later ones have no offset.
NextSyncBuffer ==
    \E atraso \in AtrasosBuffer :
        /\ chamadasSync.registros < MAX_SAMPLES + MaxExcedente
        /\ chamadasSync.registros >= MaxLivres => atraso = 0
        /\ RegistrarInteracaoUsuario(TempoEsperadoDaPalavra(chamadasSync.registros + 1),
                                     TempoEsperadoDaPalavra(chamadasSync.registros + 1) + atraso)

\* Offsets of a run with a steady delay and stray clicks far from it.
AtrasosOutlier == {50, 5000}

\* The estimator under registrations alone, each with the steady offset or
\* with the stray one.
NextSyncOutlier ==
    \E atraso \in AtrasosOutlier :
        /\ chamadasSync.registros < MaxRegistrosOutlier
        /\ RegistrarInteracaoUsuario(TempoEsperadoDaPalavra(chamadasSync.registros + 1),
                                     TempoEsperadoDaPalavra(chamadasSync.registros + 1) + atraso)

\* Offsets of runs in which every click is equally early or late.
AtrasosConstantes == {-200, 0, 50}

\* The estimator under registrations that all have the offset of the first
\* one, and the clock.
NextSyncConstante ==
    \/ \E atraso \in AtrasosConstantes :
          /\ chamadasSync.registros < MaxRegistrosConstante
          /\ userInteractions # <<>> => atraso = Atrasos(userInteractions)[1]
          /\ RegistrarInteracaoUsuario(
                 TempoEsperadoDaPalavra(chamadasSync.registros + 1),
                 TempoEsperadoDaPalavra(chamadasSync.registros + 1) + atraso)
    \/ agora < TempoInicial + MaxTempo * PassoTempo /\ PassaTempo

\* ======================================================================
\* SupabaseService: learning_data rows and the metrics cache
\* ======================================================================
MaxChamadas == 3       \* calls of the store client in one run
MaxTempoBanco == 3     \* advances of the store client's clock by PassoBanco in one run
MaxFalhasBanco == 1    \* remote requests answered with a transient error in one run

metricsCacheTimeout == 30000

\* The store client's clock moves by half the cache timeout.
PassoBanco == metricsCacheTimeout \div 2

\* Words as the callers give them, and as the table keeps them.
PalavrasEntrada == {"Teste", "teste", "outra"}
PalavrasBanco == {"teste", "outra"}

\* palavra.toLowerCase()
toLowerCase(palavra) == IF palavra = "Teste" THEN "teste" ELSE palavra

\* The cache holds nothing under a key.
SemCache == [presente |-> FALSE, data |-> "null", timestamp |-> 0]

\* A call that returned: only what it did is kept.
Concluida(op, resultado) == [op EXCEPT !.pc = "fim", !.resultado = resultado, !.ramo = "-"]

\* .select('*').eq('word', w).single(): data when exactly one row matches,
\* error PGRST116 otherwise.
single(n) == IF n = 1 THEN "registro" ELSE "PGRST116"

InitBanco ==
    /\ linhas = [w \in PalavrasBanco |-> 0]
    /\ metricsCache = [w \in PalavrasBanco |-> SemCache]
    /\ operacoes = <<>>
    /\ agoraBanco = TempoInicial
    /\ falhasBanco = 0

\* Indices of the calls that have returned.
Retornadas == {i \in DOMAIN operacoes : operacoes[i].pc = "fim"}

\* A call starts: the record of what it is doing. `consultou`: whether it has
\* issued a remote select; `vistas`: the calls that had returned when it started.
NovaOperacao(tipo, palavra, pc, ramo, consultou, resultado) ==
    [tipo |-> tipo, palavra |-> toLowerCase(palavra), pc |-> pc, ramo |-> ramo,
     now |-> agoraBanco, tentativa |-> 1, consultou |-> consultou,
     resultado |-> resultado, vistas |-> Retornadas]

\* The cache check of obterMetricasPalavra: cached && (now - cached.timestamp) < timeout
CacheValido(palavra) ==
    LET cached == metricsCache[toLowerCase(palavra)]
    IN cached.presente /\ (agoraBanco - cached.timestamp) < metricsCacheTimeout

\* obterMetricasPalavra(palavra) up to its first await: served from the cache,
\* or the remote select is issued.
ObterMetricasPalavra(palavra) ==
    /\ Len(operacoes) < MaxChamadas
    /\ operacoes' = Append(operacoes,
          IF CacheValido(palavra)
          THEN NovaOperacao("obter", palavra, "fim", "-", FALSE,
                            metricsCache[toLowerCase(palavra)].data)
          ELSE NovaOperacao("obter", palavra, "select", "-", TRUE, "-"))
    /\ UNCHANGED <<linhas, metricsCache, agoraBanco, falhasBanco>>
    /\ UNCHANGED foraDoBanco

\* atualizarMetricasPalavra(palavra, novaCompensacao) up to its first await:
\* obterMetricasPalavra served from the cache (then the update or the insert
\* is issued), or its remote select is issued.
AtualizarMetricasPalavra(palavra) ==
    /\ Len(operacoes) < MaxChamadas
    /\ operacoes' = Append(operacoes,
          IF CacheValido(palavra)
          THEN NovaOperacao("atualizar", palavra, "escrita",
                            IF metricsCache[toLowerCase(palavra)].data = "registro"
                            THEN "update" ELSE "insert", FALSE, "-")
          ELSE NovaOperacao("atualizar", palavra, "select", "-", TRUE, "-"))
    /\ UNCHANGED <<linhas, metricsCache, agoraBanco, falhasBanco>>
    /\ UNCHANGED foraDoBanco

\* The operation queued by salvarDadosAprendizadoComEmbeddings is started by
\* the queue (at most maxConcorrencia of them run): embeddings, then the select.
SalvarDadosAprendizadoComEmbeddings(palavra) ==
    /\ Len(operacoes) < MaxChamadas
    /\ Cardinality({i \in DOMAIN operacoes :
                       operacoes[i].tipo = "salvar" /\ operacoes[i].pc # "fim"}) < maxConcorrencia
    /\ operacoes' = Append(operacoes, NovaOperacao("salvar", palavra, "select", "-", TRUE, "-"))
    /\ UNCHANGED <<linhas, metricsCache, agoraBanco, falhasBanco>>
    /\ UNCHANGED foraDoBanco

\* The answer to a select arrives. obterMetricasPalavra: a row is cached with
\* the `now` of the start of the call; PGRST116 returns null and caches nothing.
\* The writers go on to the update when they got a row, to the insert otherwise.
RespostaSelect(i) ==
    /\ i \in DOMAIN operacoes
    /\ operacoes[i].pc = "select"
    /\ LET op == operacoes[i]
           resposta == single(linhas[op.palavra])
       IN /\ operacoes' = [operacoes EXCEPT ![i] =
                 IF op.tipo = "obter"
                 THEN Concluida(op, IF resposta = "registro" THEN "registro" ELSE "null")
                 ELSE [op EXCEPT !.pc = "escrita",
                                 !.ramo = IF resposta = "registro" THEN "update" ELSE "insert"]]
          /\ metricsCache' =
                 IF op.tipo \in {"obter", "atualizar"} /\ resposta = "registro"
                 THEN [metricsCache EXCEPT ![op.palavra] =
                          [presente |-> TRUE, data |-> "registro", timestamp |-> op.now]]
                 ELSE metricsCache
    /\ UNCHANGED <<linhas, agoraBanco, falhasBanco>>
    /\ UNCHANGED foraDoBanco

\* The select fails with another error than PGRST116. obterMetricasPalavra
\* tries again, up to 3 attempts, then returns null (atualizarMetricasPalavra
\* then inserts); the queued operation throws.
FalhaSelect(i) ==
    /\ i \in DOMAIN operacoes
    /\ operacoes[i].pc = "select"
    /\ falhasBanco < MaxFalhasBanco
    /\ falhasBanco' = falhasBanco + 1
    /\ LET op == operacoes[i]
       IN operacoes' = [operacoes EXCEPT ![i] =
             IF op.tipo = "salvar" THEN Concluida(op, "erro")
             ELSE IF op.tentativa < 3 THEN [op EXCEPT !.tentativa = @ + 1]
             ELSE IF op.tipo = "obter" THEN Concluida(op, "erro")
             ELSE [op EXCEPT !.pc = "escrita", !.ramo = "insert"]]
    /\ UNCHANGED <<linhas, metricsCache, agoraBanco>>
    /\ UNCHANGED foraDoBanco

\* The update or the insert is executed by the store and the call returns.
\* learning_data has no unique constraint on word: the insert always adds a row.
RespostaEscrita(i) ==
    /\ i \in DOMAIN operacoes
    /\ operacoes[i].pc = "escrita"
    /\ LET op == operacoes[i]
       IN /\ linhas' = IF op.ramo = "insert"
                       THEN [linhas EXCEPT ![op.palavra] = @ + 1] ELSE linhas
          /\ operacoes' = [operacoes EXCEPT ![i] = Concluida(op, op.ramo)]
    /\ UNCHANGED <<metricsCache, agoraBanco, falhasBanco>>
    /\ UNCHANGED foraDoBanco

\* limparDadosAntigos(diasParaManterDados) up to its await: the delete of the
\* old rows of word_timestamps is issued (that table is not part of the model).
LimparDadosAntigos ==
    /\ Len(operacoes) < MaxChamadas
    /\ operacoes' = Append(operacoes, NovaOperacao("limpar", "-", "delete", "-", FALSE, "-"))
    /\ UNCHANGED <<linhas, metricsCache, agoraBanco, falhasBanco>>
    /\ UNCHANGED foraDoBanco

\* The delete is executed and limparDadosAntigos returns.
RespostaDelete(i) ==
    /\ i \in DOMAIN operacoes
    /\ operacoes[i].pc = "delete"
    /\ operacoes' = [operacoes EXCEPT ![i] = Concluida(operacoes[i], "void")]
    /\ UNCHANGED <<linhas, metricsCache, agoraBanco, falhasBanco>>
    /\ UNCHANGED foraDoBanco

\* The delete fails: `throw error` inside the try block, and `throw error`
\* again in the catch block, so the promise of limparDadosAntigos is rejected.
FalhaDelete(i) ==
    /\ i \in DOMAIN operacoes
    /\ operacoes[i].pc = "delete"
    /\ falhasBanco < MaxFalhasBanco
    /\ falhasBanco' = falhasBanco + 1
    /\ operacoes' = [operacoes EXCEPT ![i] = Concluida(operacoes[i], "rejeitada")]
    /\ UNCHANGED <<linhas, metricsCache, agoraBanco>>
    /\ UNCHANGED foraDoBanco

\* limparCachesExpirados(): the entries older than the timeout are deleted.
LimparCachesExpirados ==
    /\ \E w \in PalavrasBanco :
          metricsCache[w].presente /\ agoraBanco - metricsCache[w].timestamp > metricsCacheTimeout
    /\ metricsCache' = [w \in PalavrasBanco |->
          IF metricsCache[w].presente /\ agoraBanco - metricsCache[w].timestamp > metricsCacheTimeout
          THEN SemCache ELSE metricsCache[w]]
    /\ UNCHANGED <<linhas, operacoes, agoraBanco, falhasBanco>>
    /\ UNCHANGED foraDoBanco

\* Date.now() moves on by PassoBanco.
PassaTempoBanco ==
    /\ agoraBanco < TempoInicial + MaxTempoBanco * PassoBanco
    /\ agoraBanco' = agoraBanco + PassoBanco
    /\ UNCHANGED <<linhas, metricsCache, operacoes, falhasBanco>>
    /\ UNCHANGED foraDoBanco

IdsOperacao == 1..(MaxChamadas + 1)

NextBanco ==
    \/ \E p \in PalavrasEntrada : ObterMetricasPalavra(p)
    \/ \E p \in PalavrasEntrada : AtualizarMetricasPalavra(p)
    \/ \E p \in PalavrasEntrada : SalvarDadosAprendizadoComEmbeddings(p)
    \/ \E i \in IdsOperacao : RespostaSelect(i)
    \/ \E i \in IdsOperacao : FalhaSelect(i)
    \/ \E i \in IdsOperacao : RespostaEscrita(i)
    \/ LimparDadosAntigos
    \/ \E i \in IdsOperacao : RespostaDelete(i)
    \/ \E i \in IdsOperacao : FalhaDelete(i)
    \/ LimparCachesExpirados
    \/ PassaTempoBanco

\* ======================================================================
\* LearningAlgorithmService: the learning cycle and its timer
\* ======================================================================
MaxCiclos == 3            \* executions of executarCicloAprendizado started in one run
MaxTemporizadores == 3    \* setInterval calls in one run
MaxNovosDados == 1        \* records returned by obterDadosRecentes to one cycle

\* configuracao.intervaloAtualizacao (minutes): the default and another value
IntervalosAtualizacao == {15, 30}

InitAprendizado ==
    /\ intervalId = 0
    /\ isLearning = FALSE
    /\ isInitialized = FALSE
    /\ intervaloAtualizacao = 15
    /\ inicializando = 0
    /\ ciclos = <<>>
    /\ temporizadores = 0
    /\ parado = FALSE
    /\ inicializado = FALSE

\* Executions of executarCicloAprendizado that have started and not returned.
CiclosEmCurso == {i \in DOMAIN ciclos : ciclos[i].pc # "fim"}

\* executarCicloAprendizado() up to its first await: isLearning = true and the
\* request of obterDadosRecentes.
executarCicloAprendizado ==
    /\ Len(ciclos) < MaxCiclos
    /\ isLearning' = TRUE
    /\ ciclos' = Append(ciclos, [pc |-> "obterDadosRecentes", restantes |-> 0])

\* iniciarAprendizadoAutomatico(): the previous interval is cleared, a new one is set.
iniciarAprendizadoAutomatico ==
    /\ temporizadores < MaxTemporizadores
    /\ temporizadores' = temporizadores + 1
    /\ intervalId' = temporizadores + 1

\* inicializar(): it returns at once when isInitialized is set; otherwise it
\* runs up to its await of carregarPadroesExistentes.
Inicializar ==
    /\ IF isInitialized
       THEN /\ inicializado' = TRUE
            /\ UNCHANGED inicializando
       ELSE /\ inicializando + temporizadores < MaxTemporizadores
            /\ inicializando' = inicializando + 1
            /\ UNCHANGED inicializado
    /\ parado' = FALSE
    /\ UNCHANGED <<intervalId, isLearning, isInitialized, intervaloAtualizacao, ciclos,
                   temporizadores>>
    /\ UNCHANGED foraDoAprendizado

\* inicializar() after carregarPadroesExistentes: the timer is started.
InicializarContinua ==
    /\ inicializando > 0
    /\ inicializando' = inicializando - 1
    /\ iniciarAprendizadoAutomatico
    /\ isInitialized' = TRUE
    /\ inicializado' = TRUE
    /\ UNCHANGED <<isLearning, intervaloAtualizacao, ciclos, parado>>
    /\ UNCHANGED foraDoAprendizado

\* The callback of the interval: a cycle starts unless one is flagged as running.
TimerAprendizado ==
    /\ intervalId # 0
    /\ ~isLearning
    /\ executarCicloAprendizado
    /\ UNCHANGED <<intervalId, isInitialized, intervaloAtualizacao, inicializando,
                   temporizadores, parado, inicializado>>
    /\ UNCHANGED foraDoAprendizado

\* forcarAprendizado(): a cycle starts unless one is flagged as running.
ForcarAprendizado ==
    /\ ~isLearning
    /\ executarCicloAprendizado
    /\ UNCHANGED <<intervalId, isInitialized, intervaloAtualizacao, inicializando,
                   temporizadores, parado, inicializado>>
    /\ UNCHANGED foraDoAprendizado

\* atualizarConfiguracao(novaConfiguracao): the timer is restarted.
AtualizarConfiguracao(intervalo) ==
    /\ intervaloAtualizacao' = intervalo
    /\ iniciarAprendizadoAutomatico
    /\ parado' = FALSE
    /\ UNCHANGED <<isLearning, isInitialized, inicializando, ciclos, inicializado>>
    /\ UNCHANGED foraDoAprendizado

\* parar(): the interval is cleared and isLearning is set to false, whether a
\* cycle is running or not.
Parar ==
    /\ intervalId # 0 \/ isLearning \/ ~parado
    /\ intervalId' = 0
    /\ isLearning' = FALSE
    /\ parado' = TRUE
    /\ inicializado' = FALSE
    /\ UNCHANGED <<isInitialized, intervaloAtualizacao, inicializando, ciclos, temporizadores>>
    /\ UNCHANGED foraDoAprendizado

\* An await of a running cycle returns: obterDadosRecentes (with n new
\* records), analisarRegistro of one record, atualizarMetricas, otimizarPadroes.
CicloAvanca(i, n) ==
    /\ i \in CiclosEmCurso
    /\ LET c == ciclos[i]
       IN \/ /\ c.pc = "obterDadosRecentes"
             /\ ciclos' = [ciclos EXCEPT ![i] =
                   IF n > 0 THEN [pc |-> "analisarRegistro", restantes |-> n]
                   ELSE [pc |-> "atualizarMetricas", restantes |-> 0]]
          \/ /\ c.pc = "analisarRegistro"
             /\ n = 0
             /\ ciclos' = [ciclos EXCEPT ![i] =
                   IF c.restantes > 1 THEN [c EXCEPT !.restantes = @ - 1]
                   ELSE [pc |-> "atualizarMetricas", restantes |-> 0]]
          \/ /\ c.pc = "atualizarMetricas"
             /\ n = 0
             /\ ciclos' = [ciclos EXCEPT ![i] = [pc |-> "otimizarPadroes", restantes |-> 0]]
    /\ UNCHANGED <<intervalId, isLearning, isInitialized, intervaloAtualizacao, inicializando,
                   temporizadores, parado, inicializado>>
    /\ UNCHANGED foraDoAprendizado

\* The cycle ends, after otimizarPadroes or through the catch block of any
\* await that threw: the finally block sets isLearning = false.
CicloTermina(i) ==
    /\ i \in CiclosEmCurso
    /\ ciclos' = [ciclos EXCEPT ![i] = [pc |-> "fim", restantes |-> 0]]
    /\ isLearning' = FALSE
    /\ UNCHANGED <<intervalId, isInitialized, intervaloAtualizacao, inicializando,
                   temporizadores, parado, inicializado>>
    /\ UNCHANGED foraDoAprendizado

IdsCiclo == 1..(MaxCiclos + 1)

NextAprendizado ==
    \/ Inicializar
    \/ InicializarContinua
    \/ TimerAprendizado
    \/ ForcarAprendizado
    \/ \E m \in IntervalosAtualizacao : AtualizarConfiguracao(m)
    \/ Parar
    \/ \E i \in IdsCiclo, n \in 0..MaxNovosDados : CicloAvanca(i, n)
    \/ \E i \in IdsCiclo : CicloTermina(i)

\* ======================================================================
\* VectorDatabaseService: the buffer of synchronization records
\* ======================================================================
MaxRegistrosEnvio == 11   \* calls of registrarPalavraComTempo in one run
MaxTempoEnvio == 3        \* advances of the ingestion clock by PassoEnvio in one run
MaxTrocasAtivo == 1       \* calls of definirAprendizadoAtivo in one run
MaxLotesEmEnvio == 1      \* batches waiting in Promise.allSettled at one time
MaxRegistrosLote == 5     \* calls of registrarPalavraComTempo in a run with failing writes

bufferMaximo == 10
intervaloBatch == 5000

\* The ingestion clock moves by half the batch interval.
PassoEnvio == intervaloBatch \div 2

\* The batches in flight are numbered from 1, the oldest first; a record of
\* `gravacoes` whose batch has returned from Promise.allSettled has lote 0.
\* The positions in `enviados` of the records of batch `lote`:
IndicesDoLote(lote) == {i \in DOMAIN gravacoes : gravacoes[i].lote = lote}

\* The oldest batch whose Promise.allSettled has not returned
LoteMaisAntigo == 1

InitIngestao ==
    /\ registrosBuffer = <<>>
    /\ ultimoEnvio = 0
    /\ aprendizadoAtivo = TRUE
    /\ agoraEnvio = TempoInicial
    /\ enviados = <<>>
    /\ lotesEmEnvio = 0
    /\ gravacoes = <<>>
    /\ chamadasEnvio = [registros |-> 0, trocas |-> 0]

\* enviarLoteRegistros() as it would be if the buffer were emptied after the
\* await instead of before it: the records of the batch stay in the buffer
\* while their writes are in flight.
enviarLoteRegistrosSemEsvaziar(b) ==
    IF b = <<>>
    THEN /\ registrosBuffer' = b
         /\ UNCHANGED <<ultimoEnvio, enviados, lotesEmEnvio, gravacoes>>
    ELSE /\ registrosBuffer' = b
         /\ ultimoEnvio' = agoraEnvio
         /\ enviados' = enviados \o b
         /\ lotesEmEnvio' = lotesEmEnvio + 1
         /\ gravacoes' = gravacoes \o [k \in DOMAIN b |->
                                          [lote |-> lotesEmEnvio + 1, estado |-> "pendente"]]

\* enviarLoteRegistros() up to its await, on buffer b: the buffer is copied and
\* emptied, ultimoEnvio is set, and every record goes to registrarSincronizacao.
enviarLoteRegistros(b) ==
    IF b = <<>>
    THEN /\ registrosBuffer' = b
         /\ UNCHANGED <<ultimoEnvio, enviados, lotesEmEnvio, gravacoes>>
    ELSE /\ registrosBuffer' = <<>>
         /\ ultimoEnvio' = agoraEnvio
         /\ enviados' = enviados \o b
         /\ lotesEmEnvio' = lotesEmEnvio + 1
         /\ gravacoes' = gravacoes \o [k \in DOMAIN b |->
                                          [lote |-> lotesEmEnvio + 1, estado |-> "pendente"]]

\* registrarPalavraComTempo(palavra, tempoReal, tempoEsperado, ...) up to its
\* first await: the record is pushed, and the batch is sent when the buffer is
\* full or the last batch is older than intervaloBatch. `registradoEm` is not
\* a field of the record: it keeps the time of the call.
RegistrarPalavraComTempo(palavra, tempoReal, tempoEsperado) ==
    /\ chamadasEnvio.registros < MaxRegistrosEnvio
    /\ chamadasEnvio' = [chamadasEnvio EXCEPT !.registros = @ + 1]
    /\ IF ~aprendizadoAtivo
       THEN UNCHANGED <<registrosBuffer, ultimoEnvio, enviados, lotesEmEnvio, gravacoes>>
       ELSE LET dadosSincronizacao ==
                    [palavra |-> toLowerCase(palavra), diferenca |-> tempoReal - tempoEsperado,
                     registradoEm |-> agoraEnvio]
                b == Append(registrosBuffer, dadosSincronizacao)
            IN IF Len(b) >= bufferMaximo \/ agoraEnvio - ultimoEnvio > intervaloBatch
               THEN enviarLoteRegistros(b)
               ELSE /\ registrosBuffer' = b
                    /\ UNCHANGED <<ultimoEnvio, enviados, lotesEmEnvio, gravacoes>>
    /\ UNCHANGED <<aprendizadoAtivo, agoraEnvio>>
    /\ UNCHANGED foraDaIngestao

\* forcarEnvioRegistros()
ForcarEnvioRegistros ==
    /\ registrosBuffer # <<>>
    /\ enviarLoteRegistros(registrosBuffer)
    /\ UNCHANGED <<aprendizadoAtivo, agoraEnvio, chamadasEnvio>>
    /\ UNCHANGED foraDaIngestao

\* The try block of enviarLoteRegistros after its await, as it would be if it
\* put the records whose write failed back at the head of the buffer.
recolocaFalhas(buffer, registrosParaEnviar, resultados) ==
    LET RECURSIVE falhas(_)
        falhas(k) == IF k > Len(registrosParaEnviar) THEN <<>>
                     ELSE (IF resultados[k] THEN <<>> ELSE <<registrosParaEnviar[k]>>)
                            \o falhas(k + 1)
    IN falhas(1) \o buffer

\* The try block of enviarLoteRegistros after its await: the results are
\* counted and logged, the buffer is what it was. The catch block, which
\* unshifts registrosParaEnviar, is entered by a throw of the try block, and
\* neither the map of async calls nor Promise.allSettled throws or rejects.
aposAllSettled(buffer, registrosParaEnviar, resultados) == buffer

\* Promise.allSettled of the oldest batch in flight returns; resultados[k] tells
\* whether the write of the k-th record of the batch succeeded.
LoteLiquidado(resultados) ==
    /\ lotesEmEnvio > 0
    /\ LET indices == IndicesDoLote(LoteMaisAntigo)
           primeiro == CHOOSE i \in indices : \A j \in indices : i <= j
           registrosParaEnviar == [k \in 1..Cardinality(indices) |-> enviados[primeiro + k - 1]]
       IN /\ DOMAIN resultados = 1..Cardinality(indices)
          /\ gravacoes' = [i \in DOMAIN gravacoes |->
                             IF i \in indices
                             THEN [lote |-> 0,
                                   estado |-> IF resultados[i - primeiro + 1]
                                              THEN "gravado" ELSE "falhou"]
                             ELSE [gravacoes[i] EXCEPT !.lote = Max(0, @ - 1)]]
          /\ registrosBuffer' = aposAllSettled(registrosBuffer, registrosParaEnviar, resultados)
    /\ lotesEmEnvio' = lotesEmEnvio - 1
    /\ UNCHANGED <<ultimoEnvio, aprendizadoAtivo, agoraEnvio, enviados, chamadasEnvio>>
    /\ UNCHANGED foraDaIngestao

\* The results Promise.allSettled can bring for the oldest batch in flight
ResultadosDoLote == [1..Cardinality(IndicesDoLote(LoteMaisAntigo)) -> BOOLEAN]

\* The results of a batch whose writes all succeeded
ResultadosSemFalha == {[k \in 1..Cardinality(IndicesDoLote(LoteMaisAntigo)) |-> TRUE]}

\* definirAprendizadoAtivo(ativo)
DefinirAprendizadoAtivo(ativo) ==
    /\ chamadasEnvio.trocas < MaxTrocasAtivo
    /\ chamadasEnvio' = [chamadasEnvio EXCEPT !.trocas = @ + 1]
    /\ aprendizadoAtivo' = ativo
    /\ UNCHANGED <<registrosBuffer, ultimoEnvio, agoraEnvio, enviados, lotesEmEnvio,
                   gravacoes>>
    /\ UNCHANGED foraDaIngestao

\* Date.now() moves on by PassoEnvio. The service has no timer that looks at
\* the buffer: its intervals clean caches and old rows only.
PassaTempoEnvio ==
    /\ agoraEnvio < TempoInicial + MaxTempoEnvio * PassoEnvio
    /\ agoraEnvio' = agoraEnvio + PassoEnvio
    /\ UNCHANGED <<registrosBuffer, ultimoEnvio, aprendizadoAtivo, enviados, lotesEmEnvio,
                   gravacoes, chamadasEnvio>>
    /\ UNCHANGED foraDaIngestao

NextIngestao ==
    \/ \E p \in {"Teste"}, tr \in {1100}, te \in TemposEsperados :
          /\ RegistrarPalavraComTempo(p, tr, te)
          /\ lotesEmEnvio' <= MaxLotesEmEnvio
    \/ /\ ForcarEnvioRegistros
       /\ lotesEmEnvio' <= MaxLotesEmEnvio
    \/ \E resultados \in ResultadosSemFalha : LoteLiquidado(resultados)
    \/ \E ativo \in BOOLEAN : DefinirAprendizadoAtivo(ativo)
    \/ PassaTempoEnvio

\* The buffer with few registrations, flushed by registrarPalavraComTempo
\* alone, where every write of a batch can fail.
NextLote ==
    \/ \E p \in {"Teste"}, tr \in {1100}, te \in TemposEsperados :
          /\ chamadasEnvio.registros < MaxRegistrosLote
          /\ RegistrarPalavraComTempo(p, tr, te)
    \/ \E resultados \in ResultadosDoLote : LoteLiquidado(resultados)
    \/ PassaTempoEnvio

\* Concurrent callers of the buffer: registrations and forced flushes while
\* any number of earlier batches wait in Promise.allSettled, and the batches
\* return in any order.
MaxRegistrosConcorrentes == 4   \* calls of registrarPalavraComTempo in a run with concurrent flushes

\* Promise.allSettled of batch `lote` returns, whatever older batches are still
\* in flight; resultados[k] tells whether the write of its k-th record
\* succeeded. The batches in flight after it move down by one.
LoteRetorna(lote, resultados) ==
    /\ lote \in 1..lotesEmEnvio
    /\ LET indices == IndicesDoLote(lote)
           primeiro == CHOOSE i \in indices : \A j \in indices : i <= j
           registrosParaEnviar == [k \in 1..Cardinality(indices) |-> enviados[primeiro + k - 1]]
       IN /\ DOMAIN resultados = 1..Cardinality(indices)
          /\ gravacoes' = [i \in DOMAIN gravacoes |->
                             IF i \in indices
                             THEN [lote |-> 0,
                                   estado |-> IF resultados[i - primeiro + 1]
                                              THEN "gravado" ELSE "falhou"]
                             ELSE IF gravacoes[i].lote > lote
                                  THEN [gravacoes[i] EXCEPT !.lote = @ - 1]
                                  ELSE gravacoes[i]]
          /\ registrosBuffer' = aposAllSettled(registrosBuffer, registrosParaEnviar, resultados)
    /\ lotesEmEnvio' = lotesEmEnvio - 1
    /\ UNCHANGED <<ultimoEnvio, aprendizadoAtivo, agoraEnvio, enviados, chamadasEnvio>>
    /\ UNCHANGED foraDaIngestao

NextEnvioConcorrente ==
    \/ \E p \in {"Teste"}, tr \in {1100}, te \in TemposEsperados :
          /\ chamadasEnvio.registros < MaxRegistrosConcorrentes
          /\ RegistrarPalavraComTempo(p, tr, te)
    \/ ForcarEnvioRegistros
    \/ \E lote \in 1..MaxRegistrosConcorrentes :
          \E resultados \in [1..Cardinality(IndicesDoLote(lote)) -> BOOLEAN] :
             LoteRetorna(lote, resultados)
    \/ PassaTempoEnvio

\* ======================================================================
\* SyncAiService queries made by TranscriptionDisplay: corrigirTimestamps
\* ======================================================================
MaxRegistrosCorrecao == 14   \* registrations in a run that also corrects transcripts

\* A JavaScript number that may be NaN. Transcript times are seconds with
\* millisecond precision (types.ts): `valor` holds them scaled by Escala.
Numero(v) == [nan |-> FALSE, valor |-> v]
NaN == [nan |-> TRUE, valor |-> 0]

\* A WordTimestamp as the transcription service delivers it.
Palavra(word, startTime, endTime) == [word |-> word, startTime |-> startTime, endTime |-> endTime]

\* The transcripts handed to the estimator: two words from 0 s, one word
\* without duration, three adjoining words two minutes into the audio.
Transcricoes ==
    { <<Palavra("olá", 0, 500), Palavra("mundo.", 500, 1000)>>,
      <<Palavra("pausa", 1000, 1000)>>,
      <<Palavra("um", 119500, 120000), Palavra("dois", 120000, 120400),
        Palavra("tres", 120400, 121000)>> }

\* aplicarCorrecaoBasica as it would be if it also subtracted the punctuation
\* offset of the word.
aplicarCorrecaoBasicaComPontuacao(transcricao) ==
    [i \in DOMAIN transcricao |->
       LET compensacao == audioLatency * Escala
                            + (IF transcricao[i].word = "mundo." THEN 200 * Escala ELSE 0)
       IN [word |-> transcricao[i].word,
           startTime |-> Numero(Max(0, transcricao[i].startTime - compensacao)),
           endTime |-> Numero(Max(transcricao[i].startTime,
                                  transcricao[i].endTime - compensacao))]]

\* aplicarCorrecaoBasica: audioLatency (a number of milliseconds) is subtracted
\* as it is from startTime and endTime (numbers of seconds).
aplicarCorrecaoBasica(transcricao) ==
    LET compensacao == audioLatency * Escala
    IN [i \in DOMAIN transcricao |->
          [word |-> transcricao[i].word,
           startTime |-> Numero(Max(0, transcricao[i].startTime - compensacao)),
           endTime |-> Numero(Max(transcricao[i].startTime,
                                  transcricao[i].endTime - compensacao))]]

\* calcularTendenciaLocal: (mediaIntervalo - 500) / 1000, scaled by Escala
calcularTendenciaLocal(transcricao) ==
    IF Len(transcricao) < 3 THEN 0
    ELSE LET intervalos == [i \in 1..(Len(transcricao) - 1) |->
                               transcricao[i + 1].startTime - transcricao[i].startTime]
             mediaIntervalo == Soma(intervalos) \div Len(intervalos)
         IN (mediaIntervalo - 500 * Escala) \div 1000

\* calcularCorrecaoPreditiva(palavra, index, transcricao), index from 0:
\* ((duracaoAtual - duracaoMedia) / duracaoMedia) * 100, scaled by Escala;
\* 0 / 0 is NaN when no word of the window has a duration.
calcularCorrecaoPreditiva(index, transcricao) ==
    LET janela == 3
        inicio == Max(0, index - janela)
        fim == Min(Len(transcricao), index + janela + 1)
        contexto == SubSeq(transcricao, inicio + 1, fim)
        somaDuracoes == Soma([k \in DOMAIN contexto |->
                                 contexto[k].endTime - contexto[k].startTime])
        duracaoAtual == transcricao[index + 1].endTime - transcricao[index + 1].startTime
    IN IF somaDuracoes = 0 THEN NaN
       ELSE Numero(((duracaoAtual * Len(contexto) - somaDuracoes) * 100 * Escala)
                      \div somaDuracoes)

\* aplicarSuavizacaoTemporal(palavra, index, transcricao), index from 0
aplicarSuavizacaoTemporal(index, transcricao) ==
    IF index = 0 \/ index = Len(transcricao) - 1 THEN [start |-> 0, end |-> 0]
    ELSE LET palavra == transcricao[index + 1]
             gapAnterior == palavra.startTime - transcricao[index].endTime
             gapPosterior == transcricao[index + 2].startTime - palavra.endTime
         IN [start |-> IF gapAnterior < 50 * Escala THEN (-gapAnterior) \div 2 ELSE 0,
             end |-> IF gapPosterior < 50 * Escala THEN gapPosterior \div 2 ELSE 0]

\* calcularFatorPosicao(indice, total): 1.0 - (indice / total) * 0.3, scaled by Escala
calcularFatorPosicao(indice, total) == Escala - (indice * 300) \div total

\* aplicarCorrecaoAvancada: Math.max(0, NaN) and Math.max(NaN, x) are NaN.
aplicarCorrecaoAvancada(transcricao) ==
    LET compensacaoBase == audioLatency + averageDelay
        tendencia == calcularTendenciaLocal(transcricao)
        total == Len(transcricao)
    IN [i \in DOMAIN transcricao |->
          LET index == i - 1
              palavra == transcricao[i]
              fatorPosicao == calcularFatorPosicao(index, total)
              correcaoPreditiva == calcularCorrecaoPreditiva(index, transcricao)
              suavizacaoTemporal == aplicarSuavizacaoTemporal(index, transcricao)
              compensacaoAdaptativa ==
                  compensacaoBase * fatorPosicao
                    + (correcaoPreditiva.valor * 3) \div 10
                    + (tendencia * index * 2) \div (total * 10)
              novoStartTime ==
                  Max(0, palavra.startTime - compensacaoAdaptativa + suavizacaoTemporal.start)
              novoEndTime ==
                  Max(novoStartTime,
                      palavra.endTime - compensacaoAdaptativa + suavizacaoTemporal.end)
          IN IF correcaoPreditiva.nan
             THEN [word |-> palavra.word, startTime |-> NaN, endTime |-> NaN]
             ELSE [word |-> palavra.word, startTime |-> Numero(novoStartTime),
                   endTime |-> Numero(novoEndTime)]]

\* corrigirTimestamps as it would be without the advanced path
corrigirTimestampsSempreBasica(transcricao) == aplicarCorrecaoBasica(transcricao)

\* corrigirTimestamps(transcricao, tempoAtualAudio): tempoAtualAudio is not read.
corrigirTimestamps(transcricao) ==
    IF confidence < CONFIDENCE_THRESHOLD THEN aplicarCorrecaoBasica(transcricao)
    ELSE aplicarCorrecaoAvancada(transcricao)

InitExibicao ==
    /\ transcription = <<>>
    /\ correctedTranscription = <<>>
    /\ compensacoes = <<>>

\* TranscriptionDisplay's effect: setCorrectedTranscription(corrigirTimestamps(transcription))
CorrigirTimestamps(transcricao) ==
    /\ transcription' = transcricao
    /\ correctedTranscription' = corrigirTimestamps(transcricao)
    /\ UNCHANGED <<compensacoes, compensacaoCache>>
    /\ UNCHANGED foraDaExibicao

\* The estimator under registrations (any offset of AtrasosBuffer for the first
\* MaxLivres of them, none afterwards) and corrections of transcripts.
NextCorrecao ==
    \/ \E atraso \in AtrasosBuffer :
          /\ chamadasSync.registros < MaxRegistrosCorrecao
          /\ chamadasSync.registros >= MaxLivres => atraso = 0
          /\ RegistrarInteracaoUsuario(TempoEsperadoDaPalavra(chamadasSync.registros + 1),
                                       TempoEsperadoDaPalavra(chamadasSync.registros + 1) + atraso)
    \/ \E transcricao \in Transcricoes : CorrigirTimestamps(transcricao)

\* ======================================================================
\* SyncAiService.calcularCompensacaoTempo and the prediction it awaits,
\* VectorDatabaseService.predizerCompensacao
\* ======================================================================
MaxCompensacoes == 1           \* calls of calcularCompensacaoTempo in one run
MaxRegistrosCompensacao == 9   \* registrations in a run that also computes compensations

compensacaoCacheTimeout == 30 * 1000

\* The words asked about; "" stands for a call without a word.
PalavrasCompensacao == {"", "olá", "mundo.", "sim,", "guarda-chuva"}

\* The words the punctuation rules are evaluated on.
PalavrasPontuacao ==
    PalavrasCompensacao \cup {"fim!", "que?", "mas;", "disse'", "e-", "d'água", "então:"}

\* The characters of a word of PalavrasPontuacao, in order.
Caracteres(palavra) ==
    CASE palavra = "" -> <<>>
      [] palavra = "olá" -> <<"o", "l", "á">>
      [] palavra = "mundo." -> <<"m", "u", "n", "d", "o", ".">>
      [] palavra = "sim," -> <<"s", "i", "m", ",">>
      [] palavra = "guarda-chuva" ->
             <<"g", "u", "a", "r", "d", "a", "-", "c", "h", "u", "v", "a">>
      [] palavra = "fim!" -> <<"f", "i", "m", "!">>
      [] palavra = "que?" -> <<"q", "u", "e", "?">>
      [] palavra = "mas;" -> <<"m", "a", "s", ";">>
      [] palavra = "disse'" -> <<"d", "i", "s", "s", "e", "'">>
      [] palavra = "e-" -> <<"e", "-">>
      [] palavra = "d'água" -> <<"d", "'", "á", "g", "u", "a">>
      [] palavra = "então:" -> <<"e", "n", "t", "ã", "o", ":">>

\* /[c1c2...]/.test(palavra): some character of the word is in the class
contem(palavra, classe) == \E k \in DOMAIN Caracteres(palavra) : Caracteres(palavra)[k] \in classe

\* /c$/.test(palavra): the last character of the word is c
terminaEm(palavra, c) ==
    Caracteres(palavra) # <<>> /\ Caracteres(palavra)[Len(Caracteres(palavra))] = c

\* this.punctuationOffsets
punctuationOffsets ==
    [period |-> 200, comma |-> 150, semicolon |-> 150, exclamation |-> 200,
     question |-> 200, quote |-> 100, dash |-> 100]

\* /[.!?,:;"'\-]/.test(palavra)
isPunctuationWord(palavra) == contem(palavra, {".", "!", "?", ",", ":", ";", "\"", "'", "-"})

\* calcularCompensacaoPontuacao: /\.$/, /!$/, /\?$/, /,$/, /;$/ test the end of
\* the word; /["']/ and /-/ test the whole word.
calcularCompensacaoPontuacao(palavra) ==
    IF terminaEm(palavra, ".") THEN punctuationOffsets.period
    ELSE IF terminaEm(palavra, "!") THEN punctuationOffsets.exclamation
    ELSE IF terminaEm(palavra, "?") THEN punctuationOffsets.question
    ELSE IF terminaEm(palavra, ",") THEN punctuationOffsets.comma
    ELSE IF terminaEm(palavra, ";") THEN punctuationOffsets.semicolon
    ELSE IF contem(palavra, {"\"", "'"}) THEN punctuationOffsets.quote
    ELSE IF contem(palavra, {"-"}) THEN punctuationOffsets.dash
    ELSE 0

\* calcularCompensacaoTradicional(tempoAtual, palavra): tempoAtual is not read.
calcularCompensacaoTradicional(palavra) ==
    (IF confidence > Escala \div 2 THEN averageDelay ELSE 0)
      + (IF palavra # "" /\ isPunctuationWord(palavra)
         THEN calcularCompensacaoPontuacao(palavra) ELSE 0)

\* What supabaseService.obterMetricasPalavra resolves with: null (no row, not
\* connected, or the request failed after its retries) or the metrics of the word.
RespostasMetricas ==
    { [presente |-> FALSE, mediaCompensacao |-> 0, confianca |-> 0],
      [presente |-> TRUE, mediaCompensacao |-> 120, confianca |-> 250],
      [presente |-> TRUE, mediaCompensacao |-> 120, confianca |-> 400],
      [presente |-> TRUE, mediaCompensacao |-> 120, confianca |-> 800] }

\* What supabaseService.buscarPalavrasSimilares resolves with: [] (nothing
\* similar, not connected, or the request failed) or the similar words.
RespostasSimilares ==
    { <<>>,
      << [mediaCompensacao |-> 80, confianca |-> 0] >>,
      << [mediaCompensacao |-> 80, confianca |-> 500] >>,
      << [mediaCompensacao |-> 80, confianca |-> 900],
         [mediaCompensacao |-> 40, confianca |-> 900] >> }

\* A PredicaoCompensacao, or the rejection of the promise that should bring it.
Predicao(compensacao, confianca, baseadoEm) ==
    [rejeitada |-> FALSE, nan |-> FALSE, compensacao |-> compensacao,
     confianca |-> confianca, baseadoEm |-> baseadoEm]
PredicaoRejeitada ==
    [rejeitada |-> TRUE, nan |-> FALSE, compensacao |-> 0, confianca |-> 0, baseadoEm |-> "-"]
SemPredicao ==
    [rejeitada |-> FALSE, nan |-> FALSE, compensacao |-> 0, confianca |-> 0, baseadoEm |-> "-"]

\* predizerCompensacao: the prediction drawn from the metrics of the word.
predicaoDasMetricas(metricas) ==
    Predicao(metricas.mediaCompensacao, metricas.confianca, "historico")

\* predizerCompensacao: the prediction drawn from similar words, the mean
\* compensation weighted by confidence (0 / 0 when no word has confidence) and
\* 0.7 times the mean confidence.
predicaoDasSimilares(palavrasSimilares) ==
    LET somaConfianca == Soma([k \in DOMAIN palavrasSimilares |->
                                  palavrasSimilares[k].confianca])
        somaPonderada == Soma([k \in DOMAIN palavrasSimilares |->
                                  palavrasSimilares[k].mediaCompensacao
                                    * palavrasSimilares[k].confianca])
        confiancaMedia == somaConfianca \div Len(palavrasSimilares)
    IN [rejeitada |-> FALSE, nan |-> somaConfianca = 0,
        compensacao |-> IF somaConfianca = 0 THEN 0 ELSE somaPonderada \div somaConfianca,
        confianca |-> (confiancaMedia * 7) \div 10, baseadoEm |-> "similar"]

\* predizerCompensacao: the fallback, obterCompensacaoPadrao with confidence 0.2
predicaoPadrao(palavra) ==
    Predicao(calcularCompensacaoPontuacao(palavra), (2 * Escala) \div 10, "padrao")

\* The outcome of a call: the number the promise resolves with, or its rejection.
Resolve(valor) == [rejeitou |-> FALSE, valor |-> valor]
Rejeita == [rejeitou |-> TRUE, valor |-> 0]

\* Variant of calcularCompensacaoTempo without its try / catch.
compensacaoAposPredicaoSemCatch(compensacao, palavra, predicao) ==
    IF predicao.rejeitada THEN Rejeita
    ELSE IF predicao.confianca > Escala \div 2
    THEN Resolve(compensacao + predicao.compensacao)
    ELSE IF predicao.confianca > (2 * Escala) \div 10
    THEN Resolve(compensacao
                   + (predicao.compensacao * predicao.confianca
                        + calcularCompensacaoTradicional(palavra)
                            * (Escala - predicao.confianca)) \div Escala)
    ELSE Resolve(calcularCompensacaoTradicional(palavra))

\* Variant of calcularCompensacaoTempo that takes every prediction with a
\* confidence above 0.2 as it is.
compensacaoAposPredicaoSemMistura(compensacao, palavra, predicao) ==
    IF predicao.rejeitada THEN Resolve(calcularCompensacaoTradicional(palavra))
    ELSE IF predicao.confianca > (2 * Escala) \div 10
    THEN Resolve(compensacao + predicao.compensacao)
    ELSE Resolve(calcularCompensacaoTradicional(palavra))

\* calcularCompensacaoTempo after `await predizerCompensacao(palavra)`:
\* `compensacao` is the audioLatency read before the await; a rejection is
\* caught and falls through to the traditional computation.
compensacaoAposPredicao(compensacao, palavra, predicao) ==
    IF predicao.rejeitada THEN Resolve(calcularCompensacaoTradicional(palavra))
    ELSE IF predicao.confianca > Escala \div 2
    THEN Resolve(compensacao + predicao.compensacao)
    ELSE IF predicao.confianca > (2 * Escala) \div 10
    THEN Resolve(compensacao
                   + (predicao.compensacao * predicao.confianca
                        + calcularCompensacaoTradicional(palavra)
                            * (Escala - predicao.confianca)) \div Escala)
    ELSE Resolve(calcularCompensacaoTradicional(palavra))

\* The compensation cache holds nothing under a key.
SemCachePredicao == [presente |-> FALSE, resultado |-> SemPredicao, timestamp |-> 0]

InitPredicao ==
    compensacaoCache = [w \in PalavrasCompensacao \ {""} |-> SemCachePredicao]

\* The cache check of predizerCompensacao: cached && (now - cached.timestamp) < timeout
CacheCompensacaoValido(palavra) ==
    LET cached == compensacaoCache[toLowerCase(palavra)]
    IN cached.presente /\ (agoraEnvio - cached.timestamp) < compensacaoCacheTimeout

\* A call of calcularCompensacaoTempo that has returned.
CompensacaoConcluida(chamada, resultado) ==
    [chamada EXCEPT !.pc = "fim", !.resultado = resultado,
                    !.tradicional = calcularCompensacaoTradicional(chamada.palavra)]

\* calcularCompensacaoTempo(tempoAtual, palavra) up to its first await: without
\* a word it returns the traditional compensation; with one, predizerCompensacao
\* answers from its cache or asks the store for the metrics of the word.
CalcularCompensacaoTempo(palavra) ==
    /\ Len(compensacoes) < MaxCompensacoes
    /\ LET chamada == [palavra |-> palavra, compensacao |-> audioLatency,
                       now |-> agoraEnvio, pc |-> "obterMetricasPalavra",
                       predicao |-> SemPredicao, resultado |-> Resolve(0), tradicional |-> 0]
       IN compensacoes' = Append(compensacoes,
             IF palavra = ""
             THEN CompensacaoConcluida(chamada,
                                       Resolve(calcularCompensacaoTradicional(palavra)))
             ELSE IF CacheCompensacaoValido(palavra)
             THEN [chamada EXCEPT !.pc = "retorno",
                                  !.predicao = compensacaoCache[toLowerCase(palavra)].resultado]
             ELSE chamada)
    /\ UNCHANGED <<transcription, correctedTranscription, compensacaoCache>>
    /\ UNCHANGED foraDaExibicao

\* predizerCompensacao stores its result in the cache, under the `now` of its
\* start, and returns it.
PredicaoObtida(i, resultado) ==
    /\ compensacoes' = [compensacoes EXCEPT ![i].pc = "retorno", ![i].predicao = resultado]
    /\ compensacaoCache' =
          [compensacaoCache EXCEPT ![toLowerCase(compensacoes[i].palavra)] =
              [presente |-> TRUE, resultado |-> resultado, timestamp |-> compensacoes[i].now]]

\* obterMetricasPalavra resolves: metrics with a confidence above 0.3 make the
\* prediction, otherwise the similar words are asked for.
RespostaMetricas(i, metricas) ==
    /\ i \in DOMAIN compensacoes
    /\ compensacoes[i].pc = "obterMetricasPalavra"
    /\ IF metricas.presente /\ metricas.confianca > (3 * Escala) \div 10
       THEN PredicaoObtida(i, predicaoDasMetricas(metricas))
       ELSE /\ compensacoes' = [compensacoes EXCEPT ![i].pc = "buscarPalavrasSimilares"]
            /\ UNCHANGED compensacaoCache
    /\ UNCHANGED <<transcription, correctedTranscription>>
    /\ UNCHANGED foraDaExibicao

\* buscarPalavrasSimilares resolves: similar words make the prediction,
\* otherwise the default one is made.
RespostaSimilares(i, palavrasSimilares) ==
    /\ i \in DOMAIN compensacoes
    /\ compensacoes[i].pc = "buscarPalavrasSimilares"
    /\ PredicaoObtida(i, IF Len(palavrasSimilares) > 0
                         THEN predicaoDasSimilares(palavrasSimilares)
                         ELSE predicaoPadrao(compensacoes[i].palavra))
    /\ UNCHANGED <<transcription, correctedTranscription>>
    /\ UNCHANGED foraDaExibicao

\* Something throws inside the try block of predizerCompensacao: its catch
\* block reads cacheKey and now, which are declared inside the try block, so
\* it throws a ReferenceError in turn and the promise is rejected.
PredicaoLanca(i) ==
    /\ i \in DOMAIN compensacoes
    /\ compensacoes[i].pc \in {"obterMetricasPalavra", "buscarPalavrasSimilares"}
    /\ compensacoes' = [compensacoes EXCEPT ![i].pc = "retorno",
                                            ![i].predicao = PredicaoRejeitada]
    /\ UNCHANGED <<transcription, correctedTranscription, compensacaoCache>>
    /\ UNCHANGED foraDaExibicao

\* calcularCompensacaoTempo goes on after its await and returns.
CompensacaoRetorna(i) ==
    /\ i \in DOMAIN compensacoes
    /\ compensacoes[i].pc = "retorno"
    /\ compensacoes' = [compensacoes EXCEPT ![i] =
          CompensacaoConcluida(@, compensacaoAposPredicao(@.compensacao, @.palavra, @.predicao))]
    /\ UNCHANGED <<transcription, correctedTranscription, compensacaoCache>>
    /\ UNCHANGED foraDaExibicao

IdsCompensacao == 1..(MaxCompensacoes + 1)

\* The estimator under registrations, each 20 ms late, and computations of the
\* compensation of a word.
NextCompensacao ==
    \/ /\ chamadasSync.registros < MaxRegistrosCompensacao
       /\ RegistrarInteracaoUsuario(TempoEsperadoDaPalavra(chamadasSync.registros + 1),
                                    TempoEsperadoDaPalavra(chamadasSync.registros + 1) + 20)
    \/ \E palavra \in PalavrasCompensacao : CalcularCompensacaoTempo(palavra)
    \/ \E i \in IdsCompensacao, metricas \in RespostasMetricas : RespostaMetricas(i, metricas)
    \/ \E i \in IdsCompensacao, similares \in RespostasSimilares : RespostaSimilares(i, similares)
    \/ \E i \in IdsCompensacao : PredicaoLanca(i)
    \/ \E i \in IdsCompensacao : CompensacaoRetorna(i)

\* ======================================================================
\* SupabaseService.salvarDadosAprendizadoComEmbeddings: the record written
\* ======================================================================
MaxSalvamentos == 2     \* calls of salvarDadosAprendizadoComEmbeddings in one run
MaxFalhasSalvar == 1    \* remote requests of the queued operation that fail in one run

\* The columns of learning_data.
ColunasLearningData ==
    {"id", "word", "expected_time", "actual_time", "user_accuracy", "context",
     "word_embedding", "context_embedding", "created_at"}

\* The two copies of the method: the one that hands servicoFila.adicionarTarefa
\* a function, and the one that hands it an object holding the function.
CopiasSalvar == {"funcao", "objeto"}

\* dados.palavra as the callers give it, and dados.compensacao: a number, or
\* one of the values the validation replaces.
PalavrasSalvar == {"Teste", "teste", "", "  "}
CompensacoesSalvar ==
    {[tipo |-> "number", valor |-> 100], [tipo |-> "number", valor |-> 200],
     [tipo |-> "NaN", valor |-> 0], [tipo |-> "null", valor |-> 0],
     [tipo |-> "undefined", valor |-> 0]}

\* palavra.trim()
trim(palavra) == IF palavra = "  " THEN "" ELSE palavra

\* compensacao === null || compensacao === undefined || isNaN(compensacao)
compensacaoInvalida(compensacao) == compensacao.tipo \in {"NaN", "null", "undefined"}

\* dados.compensacao after the validation: 100 ms in place of an invalid value.
compensacaoValidada(compensacao) ==
    IF compensacaoInvalida(compensacao) THEN 100 ELSE compensacao.valor

\* existingData.sample_count: the row has the columns of the table; a column
\* that the table lacks reads undefined, and `undefined || 0` is 0 as
\* `undefined > 0` is false.
sample_count(existingData) ==
    IF "sample_count" \in ColunasLearningData THEN existingData.sample_count ELSE 0

\* The update branch: the new actual_time.
novaMedia(existingData, compensacao) ==
    LET novoTotal == sample_count(existingData) + 1
    IN IF sample_count(existingData) > 0
       THEN (existingData.actual_time * sample_count(existingData) + compensacao)
               \div novoTotal
       ELSE compensacao

SemRegistro == [existe |-> FALSE, actual_time |-> 0]

InitSalvar ==
    /\ learningData = [w \in PalavrasBanco |-> <<>>]
    /\ salvamentos = <<>>
    /\ copiaEmUso = "-"

\* Indices of the calls that have returned.
SalvamentosRetornados == {i \in DOMAIN salvamentos : salvamentos[i].pc = "fim"}

\* salvarDadosAprendizadoComEmbeddings(dados) up to its await: not connected
\* or an empty word return false; otherwise the compensation is validated and
\* the operation is handed to the queue. `anteriores`: the calls that had
\* returned when this one started.
SalvarDadosAprendizado(copia, conectado, palavra, compensacao) ==
    /\ Len(salvamentos) < MaxSalvamentos
    /\ copiaEmUso \in {"-", copia}
    /\ copiaEmUso' = copia
    /\ LET recusada == ~conectado \/ palavra = "" \/ Len(trim(palavra)) = 0
           chamada == [palavra |-> palavra, entradaInvalida |-> compensacaoInvalida(compensacao),
                       compensacao |-> compensacaoValidada(compensacao),
                       enfileirada |-> ~recusada,
                       pc |-> IF recusada THEN "fim" ELSE "fila",
                       existingData |-> SemRegistro, escreveu |-> FALSE, gravado |-> 0,
                       falhou |-> FALSE, resultado |-> FALSE,
                       anteriores |-> SalvamentosRetornados]
       IN salvamentos' = Append(salvamentos, chamada)
    /\ UNCHANGED learningData
    /\ UNCHANGED foraDoSalvar

\* The queue runs the task: tarefa.funcao(). A function starts with the
\* embeddings and issues the select; an object is not callable, every attempt
\* throws a TypeError, the promise of the task is rejected and the call
\* returns false from its catch block.
TarefaSalvarExecuta(i) ==
    /\ i \in DOMAIN salvamentos
    /\ salvamentos[i].pc = "fila"
    /\ salvamentos' = [salvamentos EXCEPT ![i].pc =
          IF copiaEmUso = "funcao" THEN "select" ELSE "fim"]
    /\ UNCHANGED <<learningData, copiaEmUso>>
    /\ UNCHANGED foraDoSalvar

\* .select('*').eq('word', palavra.toLowerCase()).single() is answered: the
\* row when exactly one matches, no data otherwise.
RespostaSelectSalvar(i) ==
    /\ i \in DOMAIN salvamentos
    /\ salvamentos[i].pc = "select"
    /\ LET rows == learningData[toLowerCase(salvamentos[i].palavra)]
       IN salvamentos' = [salvamentos EXCEPT
             ![i].pc = "escrita",
             ![i].existingData = IF Len(rows) = 1
                                 THEN [existe |-> TRUE, actual_time |-> rows[1].actual_time]
                                 ELSE SemRegistro]
    /\ UNCHANGED <<learningData, copiaEmUso>>
    /\ UNCHANGED foraDoSalvar

\* The update (of every row of the word) or the insert is executed, the
\* operation returns true and so does the call.
RespostaEscritaSalvar(i) ==
    /\ i \in DOMAIN salvamentos
    /\ salvamentos[i].pc = "escrita"
    /\ LET c == salvamentos[i]
           w == toLowerCase(c.palavra)
           valor == IF c.existingData.existe THEN novaMedia(c.existingData, c.compensacao)
                    ELSE c.compensacao
       IN /\ learningData' = [learningData EXCEPT ![w] =
                 IF c.existingData.existe
                 THEN [k \in DOMAIN @ |-> [actual_time |-> valor]]
                 ELSE Append(@, [actual_time |-> valor])]
          /\ salvamentos' = [salvamentos EXCEPT ![i].pc = "fim", ![i].escreveu = TRUE,
                                                ![i].gravado = valor, ![i].resultado = TRUE]
    /\ UNCHANGED copiaEmUso
    /\ UNCHANGED foraDoSalvar

\* The select or the write fails on every attempt of the queue: the operation
\* throws, the promise of the task is rejected and the call returns false.
FalhaSalvar(i) ==
    /\ i \in DOMAIN salvamentos
    /\ salvamentos[i].pc \in {"select", "escrita"}
    /\ Cardinality({k \in DOMAIN salvamentos : salvamentos[k].falhou}) < MaxFalhasSalvar
    /\ salvamentos' = [salvamentos EXCEPT ![i].pc = "fim", ![i].falhou = TRUE]
    /\ UNCHANGED <<learningData, copiaEmUso>>
    /\ UNCHANGED foraDoSalvar

IdsSalvamento == 1..(MaxSalvamentos + 1)

NextSalvar ==
    \/ \E copia \in CopiasSalvar, conectado \in BOOLEAN, palavra \in PalavrasSalvar,
          compensacao \in CompensacoesSalvar :
          SalvarDadosAprendizado(copia, conectado, palavra, compensacao)
    \/ \E i \in IdsSalvamento : TarefaSalvarExecuta(i)
    \/ \E i \in IdsSalvamento : RespostaSelectSalvar(i)
    \/ \E i \in IdsSalvamento : RespostaEscritaSalvar(i)
    \/ \E i \in IdsSalvamento : FalhaSalvar(i)

\* ======================================================================
\* LearningAlgorithmService: the map of patterns, analisarRegistro and
\* predizerCompensacao
\* ======================================================================
MaxAnalises == 6   \* calls of analisarRegistro in one run
MaxAnalisesDeTranscricao == 1  \* calls of analisarTranscricao in one run

minimoRegistrosParaAprendizado == 5
pesoHistoricoRecente == 700    \* 0.7

\* The words observed and asked about, and the contexts they come with.
PalavrasPadrao == {"Teste", "teste"}
ContextosPadrao == {"", "um teste"}

\* The records handed to analisarRegistro: registro.start_time || 0 in ms,
\* registro.context || '', registro.playback_rate || 1.
RegistrosPadrao ==
    [word : PalavrasPadrao, start_time : {100}, context : ContextosPadrao,
     playback_rate : {Escala}]

\* texto.includes(parte), on ContextosPadrao
includes(texto, parte) == parte = "" \/ texto = parte

\* this.padroes.get(chave) of a key that is not in the map
SemPadrao ==
    [existe |-> FALSE, compensacaoMedia |-> 0, frequenciaUso |-> 0,
     contextoComum |-> <<>>, velocidadeReproducaoMedia |-> 0, precisaoHistorica |-> 0]

\* No word analysed through analisarTranscricao yet.
SemAnalise ==
    [palavra |-> "-", novo |-> FALSE, estimada |-> 0, lida |-> 0, salva |-> 0,
     anterior |-> 0, media |-> 0]

InitPadroes ==
    /\ padroes = [chave \in PalavrasPadrao |-> SemPadrao]
    /\ ultimaPredicao = [palavra |-> "-", doPadrao |-> FALSE, valor |-> 0]
    /\ analises = [palavra \in PalavrasPadrao |-> 0]
    /\ analisesDeTranscricao = <<>>
    /\ ultimaAnalise = SemAnalise
    /\ otimizacao = [passes |-> 0, removidos |-> 0, mantidos |-> 0]

\* const compensacao = registro.start_time || 0: a record without the field
\* start_time reads as 0.
compensacaoLida(registro) ==
    IF "start_time" \in DOMAIN registro THEN registro.start_time ELSE 0

\* analisarRegistro: the pattern stored under `palavra` after the record;
\* compensacaoMedia is kept in ms scaled by Escala, precisaoHistorica scaled
\* by Escala.
padraoAtualizado(padrao, registro) ==
    IF ~padrao.existe
    THEN [existe |-> TRUE, compensacaoMedia |-> compensacaoLida(registro) * Escala,
          frequenciaUso |-> 1, contextoComum |-> <<registro.context>>,
          velocidadeReproducaoMedia |-> registro.playback_rate,
          precisaoHistorica |-> 0]
    ELSE LET peso == pesoHistoricoRecente
             contextos ==
                 IF \E k \in DOMAIN padrao.contextoComum :
                        padrao.contextoComum[k] = registro.context
                 THEN padrao.contextoComum
                 ELSE Append(padrao.contextoComum, registro.context)
         IN [existe |-> TRUE,
             compensacaoMedia |-> (padrao.compensacaoMedia * (Escala - peso)
                                     + compensacaoLida(registro) * Escala * peso) \div Escala,
             frequenciaUso |-> padrao.frequenciaUso + 1,
             contextoComum |-> IF Len(contextos) > 5
                               THEN SubSeq(contextos, Len(contextos) - 4, Len(contextos))
                               ELSE contextos,
             velocidadeReproducaoMedia |->
                 (padrao.velocidadeReproducaoMedia * (Escala - peso)
                    + registro.playback_rate * peso) \div Escala,
             precisaoHistorica |-> padrao.precisaoHistorica]

\* The key under which analisarRegistro and predizerCompensacao look a word
\* up: this.padroes.get(palavra), the word as it came.
chaveDoPadrao(palavra) == palavra

\* The calls of analisarRegistro made so far with a word of `palavras`
RECURSIVE TotalAnalises(_)
TotalAnalises(palavras) ==
    IF palavras = {} THEN 0
    ELSE LET p == CHOOSE q \in palavras : TRUE
         IN analises[p] + TotalAnalises(palavras \ {p})

\* analisarRegistro(registro) with a store that is not connected: the pattern
\* is created or updated and set in the map; the save that follows returns
\* false at once and leaves the store as it is.
analisarRegistro(registro) ==
    /\ TotalAnalises(PalavrasPadrao) < MaxAnalises
    /\ analises' = [analises EXCEPT ![registro.word] = @ + 1]
    /\ padroes' = [padroes EXCEPT ![chaveDoPadrao(registro.word)] =
                      padraoAtualizado(@, registro)]

\* analisarRegistro(registro) for a record loaded by carregarPadroesExistentes.
AnalisarRegistro(registro) ==
    /\ analisarRegistro(registro)
    /\ UNCHANGED <<ultimaPredicao, analisesDeTranscricao, ultimaAnalise, otimizacao>>
    /\ UNCHANGED foraDosPadroes

\* predizerCompensacao(palavra, contexto, velocidadeReproducao): the pattern of
\* the word scaled by speed and context when it has enough observations, the
\* standard 100 ms otherwise; in ms scaled by Escala.
predizerCompensacaoDoPadrao(palavra, contexto, velocidadeReproducao) ==
    LET padrao == padroes[chaveDoPadrao(palavra)]
    IN IF padrao.existe /\ padrao.frequenciaUso >= minimoRegistrosParaAprendizado
       THEN LET fatorVelocidade ==
                    (velocidadeReproducao * Escala) \div padrao.velocidadeReproducaoMedia
                compensacaoAjustada == (padrao.compensacaoMedia * fatorVelocidade) \div Escala
                fatorContexto ==
                    IF \E k \in DOMAIN padrao.contextoComum :
                           \/ includes(padrao.contextoComum[k], contexto)
                           \/ includes(contexto, padrao.contextoComum[k])
                    THEN 1100 ELSE 900
            IN [doPadrao |-> TRUE, valor |-> (compensacaoAjustada * fatorContexto) \div Escala]
       ELSE [doPadrao |-> FALSE, valor |-> 100 * Escala]

PredizerCompensacaoDoPadrao(palavra, contexto, velocidadeReproducao) ==
    /\ ultimaPredicao' =
          LET r == predizerCompensacaoDoPadrao(palavra, contexto, velocidadeReproducao)
          IN [palavra |-> palavra, doPadrao |-> r.doPadrao, valor |-> r.valor]
    /\ UNCHANGED <<padroes, analises, analisesDeTranscricao, ultimaAnalise, otimizacao>>
    /\ UNCHANGED foraDosPadroes

\* ---- analisarTranscricao

\* dadosTranscricao.palavras and dadosTranscricao.qualidadeTranscricao (scaled
\* by Escala) of the calls of analisarTranscricao.
TranscricoesAnalise == {<<"Teste">>, <<"teste", "Teste">>}
QualidadesTranscricao == {Escala, 900}

\* palavra.length
length(palavra) == CASE palavra = "Teste" -> 5 [] palavra = "teste" -> 5

\* palavras.join(' ')
join(palavras) ==
    CASE palavras = <<"Teste">> -> "Teste"
      [] palavras = <<"teste", "Teste">> -> "teste Teste"

\* Math.round(x) of x scaled by Escala
round(x) == (x + Escala \div 2) \div Escala

\* calcularCompensacaoEstimada(palavra, posicao, dados), in ms; posicao counts from 0.
calcularCompensacaoEstimada(palavra, posicao, qualidadeTranscricao) ==
    LET compensacaoBase == length(palavra) * 50
        ajusteQualidade == (Escala - qualidadeTranscricao) * 100
        ajustePosicao == IF posicao < 5 THEN 100 ELSE 0
    IN round(compensacaoBase * Escala + ajusteQualidade + ajustePosicao * Escala)

\* construirContextoPalavra(palavras, posicao): palavras.slice(posicao - 2, posicao + 3).join(' ')
construirContextoPalavra(palavras, posicao) ==
    join(SubSeq(palavras, Max(0, posicao - 2) + 1, Min(Len(palavras), posicao + 3)))

\* The record analisarTranscricao builds for the word at `posicao` (from 0).
registroDaPalavra(palavras, posicao, qualidadeTranscricao) ==
    [word |-> palavras[posicao + 1],
     compensation_offset |->
         calcularCompensacaoEstimada(palavras[posicao + 1], posicao, qualidadeTranscricao),
     context |-> construirContextoPalavra(palavras, posicao),
     playback_rate |-> Escala]

\* One iteration of the loop of analisarTranscricao up to the await inside
\* analisarRegistro: the record is built and analysed, and
\* dadosAprendizado.compensacao = compensacao is handed to the save.
analisarPalavra(palavras, posicao, qualidadeTranscricao) ==
    LET registro == registroDaPalavra(palavras, posicao, qualidadeTranscricao)
        padrao == padroes[chaveDoPadrao(registro.word)]
    IN /\ analisarRegistro(registro)
       /\ ultimaAnalise' =
              [palavra |-> registro.word, novo |-> ~padrao.existe,
               estimada |-> registro.compensation_offset,
               lida |-> compensacaoLida(registro), salva |-> compensacaoLida(registro),
               anterior |-> padrao.compensacaoMedia,
               media |-> padraoAtualizado(padrao, registro).compensacaoMedia]

\* analisarTranscricao(dadosTranscricao) up to its first await: the first word.
AnalisarTranscricao(palavras, qualidadeTranscricao) ==
    /\ Len(analisesDeTranscricao) < MaxAnalisesDeTranscricao
    /\ analisarPalavra(palavras, 0, qualidadeTranscricao)
    /\ analisesDeTranscricao' = Append(analisesDeTranscricao,
          [palavras |-> palavras, qualidadeTranscricao |-> qualidadeTranscricao, i |-> 0])
    /\ UNCHANGED <<ultimaPredicao, otimizacao>>
    /\ UNCHANGED foraDosPadroes

\* The analisarRegistro of word i returns: the next word, or the end of the loop.
TranscricaoAvanca(k) ==
    /\ k \in DOMAIN analisesDeTranscricao
    /\ LET t == analisesDeTranscricao[k]
       IN /\ t.i < Len(t.palavras)
          /\ analisesDeTranscricao' = [analisesDeTranscricao EXCEPT ![k].i = @ + 1]
          /\ IF t.i + 1 < Len(t.palavras)
             THEN analisarPalavra(t.palavras, t.i + 1, t.qualidadeTranscricao)
             ELSE UNCHANGED <<padroes, analises, ultimaAnalise>>
    /\ UNCHANGED <<ultimaPredicao, otimizacao>>
    /\ UNCHANGED foraDosPadroes

\* ---- executarCicloAprendizado on the map of patterns

\* A pass that looks at the frequency only.
otimizarPadroesSoFrequencia(mapa) ==
    [chave \in DOMAIN mapa |->
        IF mapa[chave].existe /\ mapa[chave].frequenciaUso < 2
        THEN SemPadrao ELSE mapa[chave]]

\* A pass that deletes a pattern only when it fails both conditions.
otimizarPadroesSoAmbos(mapa) ==
    [chave \in DOMAIN mapa |->
        IF mapa[chave].existe
             /\ (mapa[chave].frequenciaUso < 2 /\ mapa[chave].precisaoHistorica < 300)
        THEN SemPadrao ELSE mapa[chave]]

\* The first loop of otimizarPadroes: the patterns with frequenciaUso < 2 or
\* precisaoHistorica < 0.3 are deleted.
otimizarPadroes(mapa) ==
    [chave \in DOMAIN mapa |->
        IF mapa[chave].existe
             /\ (mapa[chave].frequenciaUso < 2 \/ mapa[chave].precisaoHistorica < 300)
        THEN SemPadrao ELSE mapa[chave]]

\* The keys in a map.
Chaves(mapa) == {chave \in DOMAIN mapa : mapa[chave].existe}

\* What the steps of a cycle leave alone.
foraDoCiclo ==
    <<intervalId, isInitialized, intervaloAtualizacao, inicializando, temporizadores, parado,
      inicializado,
      ultimaPredicao, analisesDeTranscricao, ultimaAnalise,
      varsFila, varsSync, varsBanco, varsIngestao, varsExibicao, varsSalvar, varsConsulta>>

\* obterDadosRecentes returns n records: the first one is analysed up to the
\* await of its save; without records atualizarMetricas runs.
CicloRecebeDados(i, n, registro) ==
    /\ i \in CiclosEmCurso
    /\ ciclos[i].pc = "obterDadosRecentes"
    /\ IF n > 0
       THEN /\ analisarRegistro(registro)
            /\ ciclos' = [ciclos EXCEPT ![i] = [pc |-> "analisarRegistro", restantes |-> n]]
       ELSE /\ ciclos' = [ciclos EXCEPT ![i] = [pc |-> "atualizarMetricas", restantes |-> 0]]
            /\ UNCHANGED <<padroes, analises>>
    /\ UNCHANGED <<isLearning, otimizacao>>
    /\ UNCHANGED foraDoCiclo

\* The analisarRegistro of a record returns: the next record is analysed, or
\* after the last one atualizarMetricas runs.
CicloRegistroAnalisado(i, registro) ==
    /\ i \in CiclosEmCurso
    /\ ciclos[i].pc = "analisarRegistro"
    /\ IF ciclos[i].restantes > 1
       THEN /\ analisarRegistro(registro)
            /\ ciclos' = [ciclos EXCEPT ![i].restantes = @ - 1]
       ELSE /\ ciclos' = [ciclos EXCEPT ![i] = [pc |-> "atualizarMetricas", restantes |-> 0]]
            /\ UNCHANGED <<padroes, analises>>
    /\ UNCHANGED <<isLearning, otimizacao>>
    /\ UNCHANGED foraDoCiclo

\* The await of atualizarMetricas returns and otimizarPadroes runs: its second
\* loop awaits only for patterns it kept, with frequenciaUso >= 5.
CicloOtimiza(i) ==
    /\ i \in CiclosEmCurso
    /\ ciclos[i].pc = "atualizarMetricas"
    /\ padroes' = otimizarPadroes(padroes)
    /\ otimizacao' = [passes |-> otimizacao.passes + 1,
                      removidos |-> Cardinality(Chaves(padroes) \ Chaves(padroes')),
                      mantidos |-> Cardinality(Chaves(padroes'))]
    /\ ciclos' = [ciclos EXCEPT ![i] = [pc |-> "otimizarPadroes", restantes |-> 0]]
    /\ UNCHANGED <<isLearning, analises>>
    /\ UNCHANGED foraDoCiclo

\* The await of otimizarPadroes returns: ultimaAtualizacao is set and the
\* finally block sets isLearning = false.
CicloConclui(i) ==
    /\ i \in CiclosEmCurso
    /\ ciclos[i].pc = "otimizarPadroes"
    /\ ciclos' = [ciclos EXCEPT ![i] = [pc |-> "fim", restantes |-> 0]]
    /\ isLearning' = FALSE
    /\ UNCHANGED <<padroes, analises, otimizacao>>
    /\ UNCHANGED foraDoCiclo

NextPadroes ==
    \/ \E registro \in RegistrosPadrao : AnalisarRegistro(registro)
    \/ \E palavra \in PalavrasPadrao, contexto \in ContextosPadrao :
          PredizerCompensacaoDoPadrao(palavra, contexto, Escala)

\* The rows of word_timestamps a cycle gets from obterDadosRecentes.
RegistrosRecentes == {registro \in RegistrosPadrao : registro.context = ""}

\* The map of patterns with analisarTranscricao on every transcription and
\* quality, next to analisarRegistro of loaded records.
NextTranscricao ==
    \/ \E registro \in RegistrosRecentes : AnalisarRegistro(registro)
    \/ \E palavras \in TranscricoesAnalise, q \in QualidadesTranscricao :
          AnalisarTranscricao(palavras, q)
    \/ \E k \in 1..MaxAnalisesDeTranscricao : TranscricaoAvanca(k)

\* The map of patterns with the learning cycle and analisarTranscricao.
NextCicloPadroes ==
    \/ \E registro \in RegistrosRecentes : AnalisarRegistro(registro)
    \/ \E palavras \in {<<"teste", "Teste">>}, q \in {900} :
          AnalisarTranscricao(palavras, q)
    \/ \E k \in 1..MaxAnalisesDeTranscricao : TranscricaoAvanca(k)
    \/ ForcarAprendizado
    \/ \E i \in IdsCiclo, n \in 0..MaxNovosDados, registro \in RegistrosRecentes :
          CicloRecebeDados(i, n, registro)
    \/ \E i \in IdsCiclo, registro \in RegistrosRecentes : CicloRegistroAnalisado(i, registro)
    \/ \E i \in IdsCiclo : CicloOtimiza(i)
    \/ \E i \in IdsCiclo : CicloConclui(i)

\* ======================================================================
\* SupabaseService.obterMetricasPalavra: the attempts of one call
\* ======================================================================
MaxConsultas == 2      \* calls of obterMetricasPalavra in one run
MaxVersoes == 2        \* writes of one word executed by the store in one run

\* The default of the parameter `tentativas`.
tentativasPadrao == 3

\* A wait that doubles from 2000 ms: the exponent one too high.
delayDaTentativaDobrado(tentativa) == Min(1000 * 2^(tentativa - 1), 5000)

\* The wait before attempt `tentativa`, for tentativa > 1:
\* Math.min(1000 * Math.pow(2, tentativa - 2), 5000)
delayDaTentativa(tentativa) == Min(1000 * 2^(tentativa - 2), 5000)

\* What the store answers to the select: the row, or error PGRST116.
RespostasConsulta == {"registro", "PGRST116"}

InitConsulta ==
    /\ consultas = <<>>
    /\ versoes = [w \in PalavrasBanco |-> 0]

\* What follows the return of obterMetricasPalavra: the caller has it
\* ("obter"), or atualizarMetricasPalavra issues its update or insert.
AposARetorno(para) == IF para = "obter" THEN "fim" ELSE "escrita"

\* A call of obterMetricasPalavra, by the caller (`para` = "obter") or inside
\* atualizarMetricasPalavra ("atualizar"). `selects`: remote selects issued so
\* far; `esperas`: the delays of the setTimeout calls made so far; `motivo`:
\* the return statement that ended the call; `versao`: the write whose values
\* the call returned; `escritasAntes`: the writes of the word executed when
\* the call started.
NovaConsulta(para, palavra, pc, selects, resultado, motivo, versao) ==
    [para |-> para, palavra |-> toLowerCase(palavra), pc |-> pc, tentativa |-> 1,
     now |-> agoraBanco, selects |-> selects, esperas |-> <<>>, resultado |-> resultado,
     motivo |-> motivo, versao |-> versao, escritasAntes |-> versoes[toLowerCase(palavra)]]

\* The call returns `resultado` through the return statement `motivo`.
ConsultaRetorna(c, resultado, motivo) ==
    [c EXCEPT !.pc = AposARetorno(c.para), !.resultado = resultado, !.motivo = motivo]

\* obterMetricasPalavra(palavra) up to its first await: null when the client is
\* not connected, the cached data while the entry is fresh, else attempt 1
\* issues the select (no wait before the first attempt).
obterMetricasPalavra(para, conectado, palavra) ==
    IF ~conectado THEN NovaConsulta(para, palavra, "fim", 0, "null", "desconectado", 0)
    ELSE IF CacheValido(palavra)
    THEN NovaConsulta(para, palavra, AposARetorno(para), 0,
                      metricsCache[toLowerCase(palavra)].data, "cache",
                      metricsCache[toLowerCase(palavra)].versao)
    ELSE NovaConsulta(para, palavra, "select", 1, "-", "-", 0)

ObterMetricasComTentativas(conectado, palavra) ==
    /\ Len(consultas) < MaxConsultas
    /\ consultas' = Append(consultas, obterMetricasPalavra("obter", conectado, palavra))
    /\ UNCHANGED <<varsBanco, versoes>>
    /\ UNCHANGED foraDaConsulta

\* atualizarMetricasPalavra(palavra, novaCompensacao) on a connected client, up
\* to its first await: its call of obterMetricasPalavra.
AtualizarMetricasComLeitura(palavra) ==
    /\ Len(consultas) < MaxConsultas
    /\ consultas' = Append(consultas, obterMetricasPalavra("atualizar", TRUE, palavra))
    /\ UNCHANGED <<varsBanco, versoes>>
    /\ UNCHANGED foraDaConsulta

\* The store executes the update (metrics found) or the insert (null) of
\* atualizarMetricasPalavra, which returns true. The cache is left as it is.
EscritaResponde(i) ==
    /\ i \in DOMAIN consultas
    /\ consultas[i].pc = "escrita"
    /\ versoes[consultas[i].palavra] < MaxVersoes
    /\ versoes' = [versoes EXCEPT ![consultas[i].palavra] = @ + 1]
    /\ consultas' = [consultas EXCEPT ![i] = [@ EXCEPT !.pc = "fim"]]
    /\ UNCHANGED varsBanco
    /\ UNCHANGED foraDaConsulta

\* The store executes the update or insert of the operation queued by
\* salvarDadosAprendizadoComEmbeddings, which returns true. The method does
\* not touch the cache.
EscritaDoSalvar(palavra) ==
    /\ versoes[toLowerCase(palavra)] < MaxVersoes
    /\ versoes' = [versoes EXCEPT ![toLowerCase(palavra)] = @ + 1]
    /\ UNCHANGED consultas
    /\ UNCHANGED varsBanco
    /\ UNCHANGED foraDaConsulta

\* What the store answers to the select of a call: the row once a write of the
\* word has been executed.
RespostaDoBanco(i) ==
    IF i \in DOMAIN consultas /\ versoes[consultas[i].palavra] > 0
    THEN "registro" ELSE "PGRST116"

\* The store answers the select of an attempt. A row is cached with the `now`
\* of the start of the call and returned; PGRST116 returns null at once.
ConsultaResponde(i, resposta) ==
    /\ i \in DOMAIN consultas
    /\ consultas[i].pc = "select"
    /\ LET c == consultas[i]
       IN /\ consultas' = [consultas EXCEPT ![i] =
                 IF resposta = "PGRST116" THEN ConsultaRetorna(c, "null", "PGRST116")
                 ELSE [ConsultaRetorna(c, "registro", "registro")
                          EXCEPT !.versao = versoes[c.palavra]]]
          /\ metricsCache' =
                 IF resposta = "PGRST116" THEN metricsCache
                 ELSE [metricsCache EXCEPT ![c.palavra] =
                          [presente |-> TRUE, data |-> "registro", timestamp |-> c.now,
                           versao |-> versoes[c.palavra]]]
    /\ UNCHANGED <<linhas, operacoes, agoraBanco, falhasBanco, versoes>>
    /\ UNCHANGED foraDaConsulta

\* The select of an attempt fails: an error other than PGRST116, or an
\* exception caught by the catch block. The last attempt returns null; any
\* other one goes to the next iteration, which starts with the wait.
ConsultaFalha(i) ==
    /\ i \in DOMAIN consultas
    /\ consultas[i].pc = "select"
    /\ LET c == consultas[i]
       IN consultas' = [consultas EXCEPT ![i] =
             IF c.tentativa = tentativasPadrao THEN ConsultaRetorna(c, "null", "ultimaTentativa")
             ELSE [c EXCEPT !.tentativa = @ + 1, !.pc = "espera",
                            !.esperas = Append(@, delayDaTentativa(c.tentativa + 1))]]
    /\ UNCHANGED <<varsBanco, versoes>>
    /\ UNCHANGED foraDaConsulta

\* The timer of the wait fires: the attempt issues its select.
EsperaTermina(i) ==
    /\ i \in DOMAIN consultas
    /\ consultas[i].pc = "espera"
    /\ consultas' = [consultas EXCEPT ![i] = [@ EXCEPT !.pc = "select", !.selects = @ + 1]]
    /\ UNCHANGED <<varsBanco, versoes>>
    /\ UNCHANGED foraDaConsulta

IdsConsulta == 1..(MaxConsultas + 1)

NextConsulta ==
    \/ \E conectado \in BOOLEAN, p \in PalavrasEntrada : ObterMetricasComTentativas(conectado, p)
    \/ \E i \in IdsConsulta, r \in RespostasConsulta : ConsultaResponde(i, r)
    \/ \E i \in IdsConsulta : ConsultaFalha(i)
    \/ \E i \in IdsConsulta : EsperaTermina(i)
    \/ PassaTempoBanco

\* Reads and writes of the metrics of a word on a connected client whose
\* store answers every request.
NextLeituraAposEscrita ==
    \/ \E p \in PalavrasEntrada : ObterMetricasComTentativas(TRUE, p)
    \/ \E p \in PalavrasEntrada : AtualizarMetricasComLeitura(p)
    \/ \E i \in IdsConsulta : ConsultaResponde(i, RespostaDoBanco(i))
    \/ \E i \in IdsConsulta : EscritaResponde(i)
    \/ \E p \in PalavrasEntrada : EscritaDoSalvar(p)
    \/ PassaTempoBanco

\* ======================================================================
\* Specifications
\* ======================================================================
Init ==
    InitFila /\ InitSync /\ InitBanco /\ InitAprendizado /\ InitIngestao /\ InitExibicao
      /\ InitPredicao /\ InitSalvar /\ InitPadroes /\ InitConsulta

SpecFila == Init /\ [][NextFila]_vars

SpecFilaSemParada == Init /\ [][NextFilaSemParada]_vars

\* The event loop runs every pending continuation and timer callback; calls
\* of adicionarTarefa are up to the caller.
FairSpecFila == SpecFilaSemParada /\ WF_vars(PassoInterno)

SpecSync == Init /\ [][NextSync]_vars

SpecSyncBuffer == Init /\ [][NextSyncBuffer]_vars

SpecSyncMonitor == Init /\ [][NextSyncMonitor]_vars

SpecSyncOutlier == Init /\ [][NextSyncOutlier]_vars

SpecSyncConstante == Init /\ [][NextSyncConstante]_vars

SpecBanco == Init /\ [][NextBanco]_vars

SpecAprendizado == Init /\ [][NextAprendizado]_vars

SpecIngestao == Init /\ [][NextIngestao]_vars
SpecLote == Init /\ [][NextLote]_vars
SpecEnvioConcorrente == Init /\ [][NextEnvioConcorrente]_vars
SpecPadroes == Init /\ [][NextPadroes]_vars

SpecCorrecao == Init /\ [][NextCorrecao]_vars

SpecSalvar == Init /\ [][NextSalvar]_vars

SpecCompensacao == Init /\ [][NextCompensacao]_vars

SpecLeituraAposEscrita == Init /\ [][NextLeituraAposEscrita]_vars

SpecCicloPadroes == Init /\ [][NextCicloPadroes]_vars
SpecTranscricao == Init /\ [][NextTranscricao]_vars

SpecConsulta == Init /\ [][NextConsulta]_vars

\* ---------------------------------------------------------------- queue claims

\* Operations started and not yet settled: the current attempts plus the
\* attempts abandoned by a timeout.
EmVoo == Cardinality({id \in DOMAIN fase : fase[id] = "executando"}) + EmAbandono

\* w goes before s in the documented order: higher priority, or the same
\* priority and added earlier (ids are given in the order of the calls).
Precede(w, s, t) ==
    \/ prioridades(t[w].prioridade) > prioridades(t[s].prioridade)
    \/ /\ prioridades(t[w].prioridade) = prioridades(t[s].prioridade)
       /\ w < s

\* C2: every task handed to the queue eventually has its promise settled
\* (resolved on a successful attempt, rejected after maxTentativas failures).
C2_PromessaLiquidada ==
    \A id \in IdsTarefa :
        (id \in DOMAIN tarefas /\ tarefas[id].promessa = "pendente")
            ~> (id \in DOMAIN tarefas /\ tarefas[id].promessa # "pendente")

\* C4: at most maxConcorrencia tasks are in `processando` and at most
\* maxConcorrencia started operations have not settled yet.
C4_NoMaximoTresEmVoo ==
    /\ Cardinality(processando) <= maxConcorrencia
    /\ EmVoo <= maxConcorrencia

C1_LatenciaDentroDosLimites == audioLatency >= -500 /\ audioLatency <= 1000

\* C7: syncPattern.confidence is within [0, 1] in every reachable state.
C7_ConfiancaEntreZeroEUm == confidence >= 0 /\ confidence <= Escala

\* C7 witness: after registrations with different offsets (the raw confidence
\* formula leaves [0, 1]) and a monitor tick that changed the learning rate,
\* the confidence is strictly between 0 and 1.
C7_Testemunha ==
    /\ sampleCount >= 3
    /\ chamadasSync.ticks > 0
    /\ LEARNING_RATE # LEARNING_RATE_INICIAL
    /\ \E i, j \in DOMAIN userInteractions :
          userInteractions[i].actualTime # userInteractions[j].actualTime
    /\ confidence > 0
    /\ confidence < Escala

\* C8: the buffer holds at most MAX_SAMPLES samples, and they are the most
\* recently registered ones, in registration order.
C8_BufferMaisRecentes ==
    /\ Len(userInteractions) <= MAX_SAMPLES
    /\ userInteractions = Ultimas(registradas, MAX_SAMPLES)

\* C8 witness: more than MAX_SAMPLES samples were registered, the buffer is
\* full, and the oldest sample registered differs from the one now at the head.
C8_Testemunha ==
    /\ Len(registradas) > MAX_SAMPLES
    /\ Len(userInteractions) = MAX_SAMPLES
    /\ registradas[1] # userInteractions[1]

\* C18: sampleCount is the occupancy of the buffer, not the number of
\* registrations: it never exceeds MAX_SAMPLES, and whenever the buffer holds
\* at least 3 samples it equals the number of samples buffered.
C18_SampleCountOcupacao ==
    /\ sampleCount <= MAX_SAMPLES
    /\ Len(userInteractions) >= 3 => sampleCount = Len(userInteractions)

\* C18 witness: more registrations than the buffer holds were made, and
\* sampleCount stands at the capacity.
C18_Testemunha ==
    /\ chamadasSync.registros > MAX_SAMPLES
    /\ Len(userInteractions) = MAX_SAMPLES
    /\ sampleCount = MAX_SAMPLES

\* C19: after any sequence of registrations, monitor ticks and resets,
\* LEARNING_RATE is within [0.05, 0.3] and CONFIDENCE_THRESHOLD within [0.3, 0.7].
C19_ParametrosNaFaixa ==
    /\ Escala \div 20 <= LEARNING_RATE
    /\ LEARNING_RATE <= (3 * Escala) \div 10
    /\ (3 * Escala) \div 10 <= CONFIDENCE_THRESHOLD
    /\ CONFIDENCE_THRESHOLD <= (7 * Escala) \div 10

\* C19 witness: the monitor has run on steady samples until the rate stands at
\* its upper limit and the threshold at its lower limit.
C19_Testemunha ==
    /\ chamadasSync.ticks > 0
    /\ LEARNING_RATE = (3 * Escala) \div 10
    /\ CONFIDENCE_THRESHOLD = (3 * Escala) \div 10

\* The monitor has run on scattered samples until the rate stands at its
\* lower limit.
C19_TaxaNoMinimo ==
    /\ chamadasSync.ticks > 0
    /\ LEARNING_RATE = Escala \div 20

\* The buffer holds ten samples, nine with an offset of 50 ms and one with an
\* offset of 5000 ms.
NoveEstaveisEUmOutlier ==
    LET atrasos == Atrasos(userInteractions)
    IN /\ Len(atrasos) = 10
       /\ Cardinality({i \in DOMAIN atrasos : atrasos[i] = 50}) = 9
       /\ Cardinality({i \in DOMAIN atrasos : atrasos[i] = 5000}) = 1

\* With nine samples of offset 50 and one of offset 5000 buffered, the IQR
\* step marks the 5000 sample and no other.
C20_OutlierMarcado ==
    NoveEstaveisEUmOutlier =>
        LET atrasos == Atrasos(userInteractions)
            outliers == detectarOutliers(atrasos)
        IN \A i \in DOMAIN atrasos : outliers[i] <=> atrasos[i] = 5000

\* C20: with nine samples of offset 50 and one of offset 5000 buffered, the
\* IQR step marks exactly the 5000 sample, and averageDelay, moved toward an
\* estimate that leaves the outlier out, is not above the steady offset by
\* more than the offset itself: it is not pulled toward 5000.
C20_AtrasoMedioSemOutlier ==
    /\ C20_OutlierMarcado
    /\ NoveEstaveisEUmOutlier => averageDelay <= 2 * 50

\* ---------------------------------------------------------------- store claims

\* Calls that write a learning record for word w.
Escritoras(w) ==
    {i \in DOMAIN operacoes :
        operacoes[i].tipo \in {"atualizar", "salvar"} /\ operacoes[i].palavra = w}

\* C3: once the writes for a word have returned, and at least one of them
\* wrote, learning_data holds exactly one row for the word.
C3_UmaLinhaPorPalavra ==
    \A w \in PalavrasBanco :
        (/\ \A i \in Escritoras(w) : operacoes[i].pc = "fim"
         /\ \E i \in Escritoras(w) : operacoes[i].resultado \in {"update", "insert"})
            => linhas[w] = 1

\* C6: of two obterMetricasPalavra calls for the same word, the second made
\* after the first returned a record or null and less than metricsCacheTimeout
\* after it, at most one issues a remote query.
C6_NoMaximoUmaConsulta ==
    \A i, j \in DOMAIN operacoes :
        (/\ operacoes[i].tipo = "obter" /\ operacoes[j].tipo = "obter"
         /\ operacoes[i].palavra = operacoes[j].palavra
         /\ i \in operacoes[j].vistas
         /\ operacoes[i].resultado \in {"registro", "null"}
         /\ operacoes[j].now - operacoes[i].now < metricsCacheTimeout)
            => ~(operacoes[i].consultou /\ operacoes[j].consultou)

\* ---------------------------------------------------------------- learning cycle claims

\* C5: at most one execution of executarCicloAprendizado is in progress.
C5_SemSobreposicao == Cardinality(CiclosEmCurso) <= 1

\* ---------------------------------------------------------------- ingestion claims

\* C10: no record stays in the buffer for more than intervaloBatch after it
\* was registered.
C10_EnvioEmCincoSegundos ==
    \A i \in DOMAIN registrosBuffer :
        agoraEnvio - registrosBuffer[i].registradoEm <= intervaloBatch

\* ---------------------------------------------------------------- correction claims
\* C11: on an estimator that never registered an interaction, corrigirTimestamps
\* returns every word with its start and its end moved earlier by the default
\* latency, 100 ms = 0.1 s, and clamped at 0 (olá 0.0-0.5 s comes back as 0-0.4 s).
C11_DeslocamentoPadrao ==
    (chamadasSync.registros = 0 /\ correctedTranscription # <<>>) =>
        LET deslocamento == (audioLatency * Escala) \div 1000
        IN \A i \in DOMAIN correctedTranscription :
              /\ ~correctedTranscription[i].startTime.nan
              /\ ~correctedTranscription[i].endTime.nan
              /\ correctedTranscription[i].startTime.valor
                    = Max(0, transcription[i].startTime - deslocamento)
              /\ correctedTranscription[i].endTime.valor
                    = Max(0, transcription[i].endTime - deslocamento)

\* C12: every word returned by corrigirTimestamps for a transcript with
\* 0 <= startTime <= endTime has 0 <= startTime <= endTime, on the basic and on
\* the advanced path.
C12_TemposOrdenados ==
    \A i \in DOMAIN correctedTranscription :
        /\ ~correctedTranscription[i].startTime.nan
        /\ ~correctedTranscription[i].endTime.nan
        /\ 0 <= correctedTranscription[i].startTime.valor
        /\ correctedTranscription[i].startTime.valor <= correctedTranscription[i].endTime.valor

\* ---------------------------------------------------------------- compensation claims
\* C13: calcularCompensacaoTempo never rejects; when the prediction lookup
\* throws or rejects, or comes back with the default prediction because the
\* store gave nothing, the call returns the traditional compensation.
C13_NuncaRejeita ==
    \A i \in DOMAIN compensacoes :
        compensacoes[i].pc = "fim" =>
            /\ ~compensacoes[i].resultado.rejeitou
            /\ (compensacoes[i].predicao.rejeitada
                  \/ compensacoes[i].predicao.baseadoEm = "padrao")
                 => compensacoes[i].resultado.valor = compensacoes[i].tradicional

\* A call for "mundo." whose lookup was rejected has returned the learned
\* delay plus the offset of the full stop.
C13_Testemunha ==
    \E i \in DOMAIN compensacoes :
        /\ compensacoes[i].pc = "fim"
        /\ compensacoes[i].palavra = "mundo."
        /\ compensacoes[i].predicao.rejeitada
        /\ ~compensacoes[i].resultado.rejeitou
        /\ compensacoes[i].resultado.valor > 200

\* C15 as stated: a prediction with confidence > 0.5 is the result; one with
\* 0.2 < confidence <= 0.5 is blended with the traditional compensation with
\* weights confidence and 1 - confidence; with confidence <= 0.2, or without
\* a word, the result is the traditional compensation.
C15_Precedencia ==
    \A i \in DOMAIN compensacoes :
        (compensacoes[i].pc = "fim" /\ ~compensacoes[i].predicao.rejeitada) =>
            LET c == compensacoes[i]
                p == c.predicao
            IN IF c.palavra = "" \/ p.confianca <= (2 * Escala) \div 10
               THEN c.resultado.valor = c.tradicional
               ELSE IF p.confianca > Escala \div 2
               THEN c.resultado.valor = p.compensacao
               ELSE c.resultado.valor =
                       (p.compensacao * p.confianca
                          + c.tradicional * (Escala - p.confianca)) \div Escala

\* C15 amended: the same precedence, with the audioLatency read at the start
\* of the call added to the result in the two cases that use the prediction.
C15_PrecedenciaComLatencia ==
    \A i \in DOMAIN compensacoes :
        (compensacoes[i].pc = "fim" /\ ~compensacoes[i].predicao.rejeitada) =>
            LET c == compensacoes[i]
                p == c.predicao
            IN IF c.palavra = "" \/ p.confianca <= (2 * Escala) \div 10
               THEN c.resultado.valor = c.tradicional
               ELSE IF p.confianca > Escala \div 2
               THEN c.resultado.valor = c.compensacao + p.compensacao
               ELSE c.resultado.valor =
                       c.compensacao
                         + (p.compensacao * p.confianca
                              + c.tradicional * (Escala - p.confianca)) \div Escala

\* A call has returned a blend of a prediction of medium confidence and of a
\* traditional compensation that differs from it.
C15_Testemunha ==
    \E i \in DOMAIN compensacoes :
        /\ compensacoes[i].pc = "fim"
        /\ ~compensacoes[i].predicao.rejeitada
        /\ compensacoes[i].predicao.confianca > (2 * Escala) \div 10
        /\ compensacoes[i].predicao.confianca <= Escala \div 2
        /\ compensacoes[i].tradicional > 200
        /\ compensacoes[i].tradicional # compensacoes[i].predicao.compensacao

\* ---------------------------------------------------------------- store client failure claims
\* C14: no call of the store client (reads, writes, limparDadosAntigos) ends
\* with its promise rejected: a failed remote request ends in the safe default.
C14_NenhumaChamadaRejeitada ==
    \A i \in DOMAIN operacoes :
        operacoes[i].pc = "fim" => operacoes[i].resultado # "rejeitada"

\* ---------------------------------------------------------------- monitor claims
\* C16: however many times iniciarMonitoramento is called, at most one
\* monitoring interval is alive, so the monitor runs at most once per period.
C16_NoMaximoUmMonitor == monitores <= 1
\* ----------------------------------------------------------------------
\* LearningAlgorithmService: stopping
\* ----------------------------------------------------------------------
\* C17: once parar() has returned, and until inicializar() or
\* atualizarConfiguracao() is called again, no learning interval is alive, so
\* the timer starts no learning cycle: TimerAprendizado needs a live interval.
C17_ParadoSemTemporizador == parado => intervalId = 0

\* The half of C17 that holds: parar() leaves every running cycle where it is,
\* to be continued by CicloAvanca and CicloTermina.
C17_CicloEmCursoContinua == [][(parado' /\ ~parado) => ciclos' = ciclos]_vars

\* ----------------------------------------------------------------------
\* SyncAiService: samples with one constant offset
\* ----------------------------------------------------------------------
\* C21: from a fresh estimator, every registration of a sample with the same
\* offset as all the earlier ones that leaves 3 or more samples buffered keeps
\* confidence within [0, 1], never lowers it, and raises it as long as a
\* tenth of its distance to 1 is above the resolution of the scale.
C21_ConfiancaCrescente ==
    [][(chamadasSync'.registros = chamadasSync.registros + 1
          /\ Len(userInteractions') >= 3) =>
         /\ 0 <= confidence' /\ confidence' <= Escala
         /\ confidence' >= confidence
         /\ ((Escala - confidence) * LEARNING_RATE >= Escala => confidence' > confidence)]_vars

\* C21 witness: after MaxRegistrosConstante registrations with one offset the
\* confidence is above 0.8.
C21_Testemunha ==
    /\ chamadasSync.registros >= MaxRegistrosConstante
    /\ \A i \in DOMAIN userInteractions :
          Atrasos(userInteractions)[i] = Atrasos(userInteractions)[1]
    /\ confidence > (8 * Escala) \div 10

\* ----------------------------------------------------------------------
\* SupabaseService.salvarDadosAprendizadoComEmbeddings: the record written
\* ----------------------------------------------------------------------
\* C22: when a word is saved with compensation 100 and, after that call has
\* returned, saved again with compensation 200, both writes succeeding, the
\* word has one row whose actual_time lies strictly between 100 and 200.
C22_MediaPonderada ==
    \A i, j \in DOMAIN salvamentos :
        (/\ salvamentos[i].escreveu /\ salvamentos[j].escreveu
         /\ i \in salvamentos[j].anteriores
         /\ toLowerCase(salvamentos[i].palavra) = toLowerCase(salvamentos[j].palavra)
         /\ salvamentos[i].compensacao = 100
         /\ salvamentos[j].compensacao = 200)
        => LET rows == learningData[toLowerCase(salvamentos[j].palavra)]
           IN /\ Len(rows) = 1
              /\ 100 < rows[1].actual_time
              /\ rows[1].actual_time < 200

\* ----------------------------------------------------------------------
\* SyncAiService.corrigirTimestamps: what the correction reads
\* ----------------------------------------------------------------------
\* C23: in every state of the estimator, corrigirTimestamps gives two
\* transcripts that have the same times and differ only in the text of their
\* words the same corrected times, whereas the traditional path of
\* calcularCompensacaoTempo gives a word that ends in "." 200 ms more than a
\* word without punctuation.
C23_CorrecaoIgnoraTexto ==
    /\ \A transcricao \in Transcricoes : \A texto \in PalavrasCompensacao \ {""} :
          LET outra == [i \in DOMAIN transcricao |->
                           [transcricao[i] EXCEPT !.word = texto]]
              tempos(t) == [i \in DOMAIN t |-> <<t[i].startTime, t[i].endTime>>]
          IN tempos(corrigirTimestamps(transcricao)) = tempos(corrigirTimestamps(outra))
    /\ calcularCompensacaoTradicional("mundo.") = calcularCompensacaoTradicional("olá") + 200

\* C23 witness: a transcript with a word that ends in "." has been corrected
\* on the advanced path.
C23_Testemunha ==
    /\ \E i \in DOMAIN transcription : transcription[i].word = "mundo."
    /\ correctedTranscription = corrigirTimestamps(transcription)
    /\ confidence >= CONFIDENCE_THRESHOLD

\* C24: a call of corrigirTimestamps changes nothing of the estimator, leaves
\* the transcript it was given as it was, and returns a value fixed by the
\* transcript and the state of the estimator: the basic correction when
\* confidence < CONFIDENCE_THRESHOLD, the advanced correction otherwise.
C24_CorrecaoPura ==
    [][chamadasSync' = chamadasSync =>
         /\ varsSync' = varsSync
         /\ compensacaoCache' = compensacaoCache
         /\ transcription' \in Transcricoes
         /\ correctedTranscription' =
              IF confidence < CONFIDENCE_THRESHOLD
              THEN aplicarCorrecaoBasica(transcription')
              ELSE aplicarCorrecaoAvancada(transcription')]_vars

\* C24 witness: a transcript has been corrected on the advanced path, and the
\* basic path would have given other times.
C24_Testemunha ==
    /\ transcription # <<>>
    /\ confidence >= CONFIDENCE_THRESHOLD
    /\ correctedTranscription = aplicarCorrecaoAvancada(transcription)
    /\ correctedTranscription # aplicarCorrecaoBasica(transcription)

\* ----------------------------------------------------------------------
\* VectorDatabaseService.enviarLoteRegistros: failed writes
\* ----------------------------------------------------------------------
\* C25: a flush hands every buffered record to registrarSincronizacao before
\* any result is known and empties the buffer; when the results of a batch
\* arrive, whatever writes failed, the buffer is left as it is; so the buffer
\* only holds records registered since the last flush started.
C25_FalhaNaoRecoloca ==
    [][/\ lotesEmEnvio' < lotesEmEnvio => registrosBuffer' = registrosBuffer
       /\ lotesEmEnvio' > lotesEmEnvio =>
            /\ registrosBuffer' = <<>>
            /\ Len(enviados') > Len(enviados)
            /\ \A k \in DOMAIN registrosBuffer :
                  /\ enviados'[Len(enviados) + k] = registrosBuffer[k]
                  /\ gravacoes'[Len(enviados) + k].estado = "pendente"
       /\ \A k \in DOMAIN registrosBuffer' :
            registrosBuffer'[k].registradoEm >= ultimoEnvio']_vars

\* C25 witness: the second batch, flushed with two or more records once the
\* first flush was more than intervaloBatch old, has returned with the write
\* of its first record failed and the write of its second record done, and
\* the buffer holds a record registered after that flush.
C25_Testemunha ==
    /\ Len(enviados) >= 3
    /\ lotesEmEnvio = 0
    /\ enviados[2].registradoEm - enviados[1].registradoEm <= intervaloBatch
    /\ gravacoes[2].estado = "falhou"
    /\ gravacoes[3].estado = "gravado"
    /\ registrosBuffer # <<>>

\* ----------------------------------------------------------------------
\* LearningAlgorithmService: the key of a pattern
\* ----------------------------------------------------------------------
\* C26: the observations of a word, whatever their letter case, go to one
\* pattern whose frequenciaUso counts them all, and a prediction asked for
\* the word in any letter case is drawn from that pattern once it has
\* minimoRegistrosParaAprendizado observations.
C26_PadraoSemCaixa ==
    LET observacoes(palavra) ==
            TotalAnalises({p \in PalavrasPadrao : toLowerCase(p) = toLowerCase(palavra)})
        chaves(palavra) ==
            {chave \in PalavrasPadrao :
                padroes[chave].existe /\ toLowerCase(chave) = toLowerCase(palavra)}
    IN /\ \A palavra \in PalavrasPadrao :
             observacoes(palavra) > 0 =>
                /\ Cardinality(chaves(palavra)) = 1
                /\ \A chave \in chaves(palavra) :
                      padroes[chave].frequenciaUso = observacoes(palavra)
       /\ (/\ ultimaPredicao.palavra # "-"
           /\ observacoes(ultimaPredicao.palavra) >= minimoRegistrosParaAprendizado)
          => ultimaPredicao.doPadrao

\* ----------------------------------------------------------------------
\* SupabaseService.salvarDadosAprendizadoComEmbeddings: validation
\* ----------------------------------------------------------------------
\* C27: a call with an empty or blank word queues no task, writes nothing and
\* returns false; a call with a word and a compensation that is null,
\* undefined or NaN, handed to the queue and not failed by the store, has
\* written the record with a compensation of 100 ms when it returns.
C27_ValidacaoDaEntrada ==
    \A i \in DOMAIN salvamentos :
        LET c == salvamentos[i]
        IN /\ Len(trim(c.palavra)) = 0 =>
                ~c.enfileirada /\ ~c.escreveu /\ c.pc = "fim" /\ ~c.resultado
           /\ (c.entradaInvalida /\ c.enfileirada /\ c.pc = "fim" /\ ~c.falhou) =>
                c.escreveu /\ c.gravado = 100 /\ c.resultado

\* What holds of C27 in both copies of the method: a blank word is refused,
\* and an invalid compensation is replaced by 100 before the task is queued.
C27_RecusaEValorPadrao ==
    \A i \in DOMAIN salvamentos :
        LET c == salvamentos[i]
        IN /\ Len(trim(c.palavra)) = 0 =>
                ~c.enfileirada /\ ~c.escreveu /\ c.pc = "fim" /\ ~c.resultado
           /\ c.entradaInvalida => c.compensacao = 100
           /\ (copiaEmUso = "funcao" /\ c.entradaInvalida /\ c.enfileirada
                 /\ c.pc = "fim" /\ ~c.falhou) =>
                c.escreveu /\ c.gravado = 100 /\ c.resultado

\* ----------------------------------------------------------------------
\* SyncAiService.registrarInteracaoUsuario: the minimum of three samples
\* ----------------------------------------------------------------------
\* C28: a registration that leaves fewer than 3 samples in the buffer only
\* appends its sample: averageDelay, confidence, sampleCount, audioLatency,
\* the time of the last calibration and the two parameters stay as they
\* were; a registration that leaves 3 or more samples runs the analysis,
\* which sets sampleCount to the length of the buffer.
C28_MinimoDeTresAmostras ==
    [][chamadasSync'.registros = chamadasSync.registros + 1 =>
         IF Len(userInteractions') < 3
         THEN /\ Len(userInteractions') = Len(userInteractions) + 1
              /\ SubSeq(userInteractions', 1, Len(userInteractions)) = userInteractions
              /\ UNCHANGED <<averageDelay, confidence, sampleCount, audioLatency,
                             lastCalibration, LEARNING_RATE, CONFIDENCE_THRESHOLD>>
         ELSE /\ sampleCount' = Len(userInteractions')
              /\ confidence' >= 0 /\ confidence' <= Escala]_vars

\* C28 witness: after a reset of a trained estimator two samples have been
\* registered, and a third registration before the reset had run the analysis.
C28_Testemunha ==
    /\ Len(userInteractions) = 2
    /\ chamadasSync.registros >= 5
    /\ chamadasSync.resets >= 1
    /\ sampleCount = 0

\* ----------------------------------------------------------------------
\* SyncAiService.detectarAnomalias: the emergency correction
\* ----------------------------------------------------------------------
\* C29 as stated: on a monitor tick with 3 or more samples of the last 10 s
\* whose last two offsets differ by more than 300 ms, audioLatency moves by
\* 0.3 times the difference of the last two offsets (signed, or its size)
\* and is clamped to [-300, 800]; on any other tick it is unchanged.
C29_CorrecaoPeloSalto ==
    [][chamadasSync'.ticks = chamadasSync.ticks + 1 =>
         LET atrasos == Atrasos(Recentes(userInteractions, agora))
             n == Len(atrasos)
         IN IF n >= 3 /\ Abs(atrasos[n] - atrasos[n - 1]) > 300
            THEN \/ audioLatency' =
                      Limitar(-300, 800, audioLatency + ((atrasos[n] - atrasos[n - 1]) * 3) \div 10)
                 \/ audioLatency' =
                      Limitar(-300, 800,
                              audioLatency + (Abs(atrasos[n] - atrasos[n - 1]) * 3) \div 10)
            ELSE audioLatency' = audioLatency]_vars

\* C29 amended: on such a tick audioLatency is increased by 0.3 times the
\* last offset, the offset of the newest sample, and clamped to [-300, 800];
\* on any other tick it is unchanged.
C29_CorrecaoPeloUltimoAtraso ==
    [][chamadasSync'.ticks = chamadasSync.ticks + 1 =>
         LET atrasos == Atrasos(Recentes(userInteractions, agora))
             n == Len(atrasos)
         IN IF n >= 3 /\ Abs(atrasos[n] - atrasos[n - 1]) > 300
            THEN audioLatency' = Limitar(-300, 800, audioLatency + (atrasos[n] * 3) \div 10)
            ELSE audioLatency' = audioLatency]_vars

\* C29 witness: the monitor has fired on three or more recent samples whose
\* last offset is 2000 ms after an offset of 0, and audioLatency stands at
\* the upper limit of the emergency correction.
C29_Testemunha ==
    /\ chamadasSync.ticks >= 1
    /\ LET atrasos == Atrasos(Recentes(userInteractions, agora))
           n == Len(atrasos)
       IN n >= 3 /\ atrasos[n] = 2000 /\ atrasos[n - 1] = 0
    /\ audioLatency = 800

\* ----------------------------------------------------------------------
\* SyncAiService.calcularCompensacaoPontuacao: the punctuation offset
\* ----------------------------------------------------------------------
\* C30: the traditional compensation of a call of calcularCompensacaoTempo
\* is the averageDelay term plus 200 ms for a word ending in ".", "!" or "?",
\* 150 ms for a word ending in "," or ";", 100 ms for a word ending in a
\* quote or a dash, and 0 for every other word.
C30_CompensacaoDaPontuacao ==
    [][\A i \in DOMAIN compensacoes' :
          (/\ compensacoes'[i].pc = "fim"
           /\ i \in DOMAIN compensacoes => compensacoes[i].pc # "fim")
          => LET palavra == compensacoes'[i].palavra
                 base == IF confidence > Escala \div 2 THEN averageDelay ELSE 0
                 pontuacao ==
                     IF \E c \in {".", "!", "?"} : terminaEm(palavra, c) THEN 200
                     ELSE IF \E c \in {",", ";"} : terminaEm(palavra, c) THEN 150
                     ELSE IF \E c \in {"\"", "'", "-"} : terminaEm(palavra, c) THEN 100
                     ELSE 0
             IN compensacoes'[i].tradicional = base + pontuacao]_vars

\* What holds of C30: the offsets of the words that end in punctuation, and
\* 0 for the words without a quote or a dash anywhere, a trailing ":" included.
C30_PontuacaoNoFim ==
    \A palavra \in PalavrasPontuacao :
        LET base == IF confidence > Escala \div 2 THEN averageDelay ELSE 0
            pontuacao == calcularCompensacaoTradicional(palavra) - base
        IN /\ (\E c \in {".", "!", "?"} : terminaEm(palavra, c)) => pontuacao = 200
           /\ (\E c \in {",", ";"} : terminaEm(palavra, c)) => pontuacao = 150
           /\ (\E c \in {"\"", "'", "-"} : terminaEm(palavra, c)) => pontuacao = 100
           /\ ~contem(palavra, {".", "!", "?", ",", ";", "\"", "'", "-"}) => pontuacao = 0

\* ---------------------------------------------------------------- claims on the attempts of obterMetricasPalavra

\* C31: one call of obterMetricasPalavra issues at most 3 remote selects; it
\* waits 1000 ms before the 2nd and 2000 ms before the 3rd and nowhere else;
\* the answer not-found ends the call at once with null; a call whose last
\* attempt failed made 3 attempts and returned null; no call is rejected; and
\* a call that has returned makes no further attempt.
C31_ProtocoloDeTentativas ==
    /\ [](\A i \in DOMAIN consultas :
            LET c == consultas[i]
            IN /\ c.selects <= 3
               /\ c.esperas = SubSeq(<<1000, 2000>>, 1, Len(c.esperas))
               /\ Len(c.esperas) = (IF c.pc = "espera" THEN c.selects
                                    ELSE IF c.selects = 0 THEN 0 ELSE c.selects - 1)
               /\ c.motivo = "PGRST116" => c.pc = "fim" /\ c.resultado = "null"
               /\ c.motivo = "ultimaTentativa" =>
                     c.pc = "fim" /\ c.resultado = "null" /\ c.selects = 3
               /\ c.resultado # "rejeitada")
    /\ [][\A i \in DOMAIN consultas :
             consultas[i].pc = "fim" => consultas'[i] = consultas[i]]_vars

\* A call failed three times, after waits of 1000 and 2000 ms, and returned
\* null; another one got not-found on its second attempt.
C31_Testemunha ==
    /\ \E i \in DOMAIN consultas :
          /\ consultas[i].motivo = "ultimaTentativa"
          /\ consultas[i].selects = 3
          /\ consultas[i].esperas = <<1000, 2000>>
          /\ consultas[i].resultado = "null"
    /\ \E i \in DOMAIN consultas :
          /\ consultas[i].motivo = "PGRST116"
          /\ consultas[i].selects = 2
          /\ consultas[i].esperas = <<1000>>

\* ---------------------------------------------------------------- claims on the learning cycle and the patterns

\* Maps of patterns with every combination of frequenciaUso 1..3 and
\* precisaoHistorica 0, 0.299, 0.3 and 1.
MapasDePadroes ==
    [PalavrasPadrao ->
        {SemPadrao} \cup
        {[existe |-> TRUE, compensacaoMedia |-> 100 * Escala, frequenciaUso |-> f,
          contextoComum |-> <<"">>, velocidadeReproducaoMedia |-> Escala,
          precisaoHistorica |-> a] : f \in 1..3, a \in {0, 299, 300, Escala}}]

\* What the pass promises about the map before and the map after it.
EvictaoCorreta(antes, depois) ==
    \A chave \in DOMAIN antes :
       /\ depois[chave].existe =>
             depois[chave].frequenciaUso >= 2 /\ depois[chave].precisaoHistorica >= 300
       /\ (antes[chave].existe /\ antes[chave].frequenciaUso >= 2
             /\ antes[chave].precisaoHistorica >= 300) => depois[chave] = antes[chave]

\* The pass keeps its promise on every map of MapasDePadroes.
EvictaoEmTodosOsMapas ==
    \A mapa \in MapasDePadroes : EvictaoCorreta(mapa, otimizarPadroes(mapa))

\* C32: when the pass of otimizarPadroes completes, every pattern in the map
\* has frequenciaUso >= 2 and precisaoHistorica >= 0.3, and every pattern that
\* had both before the pass is in the map unchanged: for every map of
\* MapasDePadroes, and on every step of a cycle that runs the pass.
C32_EvictaoDaOtimizacao ==
    /\ []EvictaoEmTodosOsMapas
    /\ [][\A i \in DOMAIN ciclos :
             (ciclos[i].pc = "atualizarMetricas" /\ ciclos'[i].pc = "otimizarPadroes")
                => EvictaoCorreta(padroes, padroes')]_vars

\* A pass has run on a map that held a pattern observed twice or more, and
\* removed it.
C32_Testemunha ==
    /\ otimizacao.passes >= 1
    /\ otimizacao.removidos = 2
    /\ \E i \in DOMAIN ciclos : ciclos[i].pc = "otimizarPadroes"
    /\ \E palavra \in PalavrasPadrao : analises[palavra] >= 2
    /\ Chaves(padroes) = {}


\* precisaoHistorica is 0 in every pattern of the map.
PrecisaoSempreZero == \A chave \in DOMAIN padroes : padroes[chave].precisaoHistorica = 0

\* The map is empty and predizerCompensacao answers the standard 100 ms for
\* every word and context.
MapaVazioEPredicaoPadrao ==
    /\ Chaves(padroes) = {}
    /\ \A palavra \in PalavrasPadrao, contexto \in ContextosPadrao :
          predizerCompensacaoDoPadrao(palavra, contexto, Escala) =
             [doPadrao |-> FALSE, valor |-> 100 * Escala]

\* C33 as stated: precisaoHistorica is 0 in every pattern in every state, and
\* when a learning cycle completes the map is empty and predizerCompensacao
\* returns 100 ms for every word.
C33_MapaVazioAoConcluirOCiclo ==
    /\ []PrecisaoSempreZero
    /\ [][\A i \in DOMAIN ciclos :
             (ciclos[i].pc # "fim" /\ ciclos'[i].pc = "fim") => MapaVazioEPredicaoPadrao']_vars

\* C33 amended: precisaoHistorica is 0 in every pattern in every state, and
\* when the pass of otimizarPadroes of a learning cycle has run the map is
\* empty and predizerCompensacao returns 100 ms for every word.
C33_MapaVazioAposAOtimizacao ==
    /\ []PrecisaoSempreZero
    /\ [][\A i \in DOMAIN ciclos :
             (ciclos[i].pc = "atualizarMetricas" /\ ciclos'[i].pc = "otimizarPadroes")
                => MapaVazioEPredicaoPadrao']_vars

\* A cycle has completed after its pass removed a pattern that had been
\* observed five times, enough for predizerCompensacao to answer from it.
C33_Testemunha ==
    /\ \E i \in DOMAIN ciclos : ciclos[i].pc = "fim"
    /\ otimizacao.removidos >= 1
    /\ \E palavra \in PalavrasPadrao : analises[palavra] >= minimoRegistrosParaAprendizado
    /\ MapaVazioEPredicaoPadrao


\* C34: for a word seen for the first time through analisarTranscricao, the
\* compensation stored as compensacaoMedia and handed to the save is the one
\* calcularCompensacaoEstimada computed for it; on a later observation the
\* mean is old x 0.3 + that compensation x 0.7.
C34_CompensacaoEstimadaObservada ==
    ultimaAnalise.palavra # "-" =>
       /\ ultimaAnalise.salva = ultimaAnalise.estimada
       /\ ultimaAnalise.media =
             IF ultimaAnalise.novo THEN ultimaAnalise.estimada * Escala
             ELSE (ultimaAnalise.anterior * (Escala - pesoHistoricoRecente)
                     + ultimaAnalise.estimada * Escala * pesoHistoricoRecente) \div Escala

\* What holds instead: the estimate is length x 50 + (1 - quality) x 100 + 100
\* for the first five positions, the compensation analisarRegistro reads is 0,
\* and the mean is 0 for a new word and old x 0.3 + 0 x 0.7 afterwards.
C34_CompensacaoLidaZero ==
    ultimaAnalise.palavra # "-" =>
       /\ ultimaAnalise.estimada \in {350, 360}
       /\ ultimaAnalise.lida = 0 /\ ultimaAnalise.salva = 0
       /\ ultimaAnalise.media =
             IF ultimaAnalise.novo THEN 0
             ELSE (ultimaAnalise.anterior * (Escala - pesoHistoricoRecente)) \div Escala

\* ---------------------------------------------------------------- claims on the outliers and the partial reset

\* Lists of up to six offsets, near and far on either side.
ListasDeAtrasos ==
    UNION {[1..n -> {-5000, 0, 50, 5000}] : n \in 0..6}

\* detectarOutliers flags no sample of a list shorter than 4 and fewer than
\* half of the samples of any other list of ListasDeAtrasos, so that
\* percentualOutliers > 0.5 is false for all of them.
MenosDaMetadeMarcados ==
    \A atrasos \in ListasDeAtrasos :
       LET marcados == Marcados(detectarOutliers(atrasos))
       IN /\ Len(atrasos) < 4 => marcados = 0
          /\ Len(atrasos) >= 4 => 2 * marcados < Len(atrasos)
          /\ ~muitosOutliers(atrasos)

\* C35: the IQR rule of detectarOutliers flags fewer than half of the samples
\* of every list (none of a list shorter than 4); the monitor never finds
\* more than 50% of the recent offsets flagged; and no monitor tick executes
\* resetarSistemaParcial: a tick removes no sample and leaves the confidence
\* as it is.
C35_ResetParcialInalcancavel ==
    /\ []MenosDaMetadeMarcados
    /\ [](~muitosOutliers(Atrasos(Recentes(userInteractions, agora))))
    /\ [][chamadasSync'.ticks = chamadasSync.ticks + 1 =>
             userInteractions' = userInteractions /\ confidence' = confidence]_vars

\* A monitor tick has analysed recent samples of which the IQR rule flagged
\* one, and the five samples are all still in the buffer.
C35_Testemunha ==
    /\ chamadasSync.ticks >= 1
    /\ chamadasSync.marcados >= 1
    /\ Len(userInteractions) = 5
    /\ confidence > 0

\* ---------------------------------------------------------------- claims on the restart of the learning service

\* C36: once a call of inicializar() has returned, and until parar() is
\* called, the periodic learning timer is scheduled (intervalId is not null);
\* also when the call was made after a parar().
C36_InicializarAgendaTemporizador == inicializado => intervalId # 0

\* ---------------------------------------------------------------- claims on the executions of one task

C38_LeituraAposEscrita ==
    \A i \in DOMAIN consultas :
       LET c == consultas[i]
       IN (c.para = "obter" /\ c.pc = "fim" /\ c.escritasAntes >= 1) =>
             c.resultado = "registro" /\ c.versao >= c.escritasAntes

\* ----------------------------------------------------------------------
\* VectorDatabaseService: concurrent registrations and forced flushes
\* ----------------------------------------------------------------------
\* C39: whatever the interleaving of registrarPalavraComTempo calls, forced
\* flushes and returning batches, the records handed to registrarSincronizacao
\* followed by the records of the buffer are the observations registered, in
\* the order of their registration and each of them once: a step either
\* leaves that sequence as it is or a registration adds one observation at
\* its end, a record handed over stays handed over and belongs to one batch.
C39_CadaObservacaoEntregueUmaVez ==
    /\ [](/\ Len(enviados) + Len(registrosBuffer) = chamadasEnvio.registros
          /\ Len(gravacoes) = Len(enviados))
    /\ [][LET antes == enviados \o registrosBuffer
              depois == enviados' \o registrosBuffer'
          IN /\ Len(enviados') >= Len(enviados)
             /\ SubSeq(enviados', 1, Len(enviados)) = enviados
             /\ Len(depois) >= Len(antes)
             /\ SubSeq(depois, 1, Len(antes)) = antes
             /\ Len(depois) > Len(antes) =>
                   /\ Len(depois) = Len(antes) + 1
                   /\ chamadasEnvio'.registros = chamadasEnvio.registros + 1
                   /\ depois[Len(depois)].registradoEm = agoraEnvio]_vars

\* C39 witness: two batches wait in Promise.allSettled at once, the second one
\* flushed by forcarEnvioRegistros at the clock of the first (one record, the
\* last batch not older than intervaloBatch), a third batch has returned with
\* a failed write, and the buffer holds a later observation.
C39_Testemunha ==
    /\ lotesEmEnvio >= 2
    /\ Len(enviados) >= 3
    /\ gravacoes[1].lote = 1
    /\ gravacoes[2].lote = 2
    /\ enviados[2].registradoEm = enviados[1].registradoEm
    /\ gravacoes[3].estado = "falhou"
    /\ registrosBuffer # <<>>

====
